---- MODULE Spec2Model ----
(***************************************************************************)
(* Bash.ai client (src/src/bashai.py): the response protocol parser, the   *)
(* command executor with its safety blocklist, the streaming runner, the   *)
(* two AI debug loops and the interactive dispatcher.                      *)
(*                                                                         *)
(* Text is modelled character by character: a Python str is a sequence of  *)
(* one-character strings, so that case folding, trimming and the regular   *)
(* expressions of the parser act on what they act on in the code.          *)
(***************************************************************************)
EXTENDS Integers, Sequences, FiniteSets, TLC

(***************************************************************************)
(* Python str primitives                                                   *)
(***************************************************************************)

UpperChars == <<"A","B","C","D","E","F","G","H","I","J","K","L","M","N","O","P","Q","R","S","T","U","V","W","X","Y","Z">>

LowerChars == <<"a","b","c","d","e","f","g","h","i","j","k","l","m","n","o","p","q","r","s","t","u","v","w","x","y","z">>

\* str.lower() on one character
LowerChar(c) == IF \E i \in 1..Len(UpperChars) : UpperChars[i] = c THEN LowerChars[CHOOSE i \in 1..Len(UpperChars) : UpperChars[i] = c] ELSE c

\* str.upper() on one character (used to build mixed-case inputs)
UpperChar(c) == IF \E i \in 1..Len(LowerChars) : LowerChars[i] = c THEN UpperChars[CHOOSE i \in 1..Len(LowerChars) : LowerChars[i] = c] ELSE c

\* str.lower()
Lower(s) == [i \in 1..Len(s) |-> LowerChar(s[i])]

\* the characters str.strip() removes and the regex class \s matches
Whitespace == {" ", "\n", "\t", "\r"}

\* the least element of a non-empty set of integers
Min(S) == CHOOSE i \in S : \A j \in S : i <= j

\* the greatest element of a non-empty set of integers
Max(S) == CHOOSE i \in S : \A j \in S : i >= j

\* index of the first non-whitespace character at or after i (Len+1 if none)
LStripIdx(s, i) == LET keep == {j \in i..Len(s) : s[j] \notin Whitespace} IN IF keep = {} THEN (IF i > Len(s) THEN i ELSE Len(s) + 1) ELSE Min(keep)

\* index of the last non-whitespace character at or before i (0 if none)
RStripIdx(s, i) == LET keep == {j \in 1..i : s[j] \notin Whitespace} IN IF keep = {} THEN 0 ELSE Max(keep)

\* str.strip()
Strip(s) == SubSeq(s, LStripIdx(s, 1), RStripIdx(s, Len(s)))

\* s[i:i+len(p)] == p
IsAt(s, p, i) == /\ i >= 1
                 /\ i + Len(p) - 1 <= Len(s)
                 /\ \A k \in 1..Len(p) : s[i + k - 1] = p[k]

\* str.find(p, from): the least index >= from where p occurs in s, 0 if none
Find(s, p, from) == LET hits == {i \in from..(Len(s) - Len(p) + 1) : IsAt(s, p, i)} IN IF hits = {} THEN 0 ELSE Min(hits)

\* p in s
Contains(s, p) == Find(s, p, 1) > 0

\* s.endswith(p)
EndsWith(s, p) == Len(p) <= Len(s) /\ IsAt(s, p, Len(s) - Len(p) + 1)

\* s[:a-1] + s[b+1:], the text with positions a..b cut out
Cut(s, a, b) == SubSeq(s, 1, a - 1) \o SubSeq(s, b + 1, Len(s))

\* Optional values: None is the empty tuple, a value v is <<v>>
None == <<>>

Some(v) == <<v>>

\* Python truthiness of an optional str: not None and not empty
Truthy(o) == o # None /\ o[1] # <<>>

\* F applied to the value of v, with v evaluated once (a local variable
\* assigned once and read several times)
Bind(v, F(_)) == CHOOSE r \in {F(x) : x \in {v}} : TRUE

(***************************************************************************)
(* Tag vocabulary of the protocol (bashai.py 667-671, 686)                 *)
(***************************************************************************)

DepsOpen == <<"<","d","e","p","e","n","d","e","n","c","i","e","s",">">>

DepsClose == <<"<","/","d","e","p","e","n","d","e","n","c","i","e","s",">">>

ExecOpen == <<"<","e","x","e","c","u","t","e",">">>

ExecClose == <<"<","/","e","x","e","c","u","t","e",">">>

FilesOpen == <<"<","f","i","l","e","s",">">>

FilesClose == <<"<","/","f","i","l","e","s",">">>

FileOpen == <<"<","f","i","l","e",">">>

FileClose == <<"<","/","f","i","l","e",">">>

FilenameOpen == <<"<","f","i","l","e","n","a","m","e",">">>

FilenameClose == <<"<","/","f","i","l","e","n","a","m","e",">">>

CodeOpen == <<"<","c","o","d","e",">">>

CodeClose == <<"<","/","c","o","d","e",">">>

EditedFilenameOpen == <<"<","e","d","i","t","e","d","_","f","i","l","e","n","a","m","e",">">>

EditedFilenameClose == <<"<","/","e","d","i","t","e","d","_","f","i","l","e","n","a","m","e",">">>

EditedCodeOpen == <<"<","e","d","i","t","e","d","_","c","o","d","e",">">>

EditedCodeClose == <<"<","/","e","d","i","t","e","d","_","c","o","d","e",">">>

(***************************************************************************)
(* Regular expressions of _parse_ai_response, with re.DOTALL.  A pattern   *)
(* made of literals separated by lazy (.*?) groups matches at the leftmost *)
(* occurrence of its first literal, each later literal at its first        *)
(* occurrence after the previous one; if that fails no later start works.  *)
(***************************************************************************)

NoMatch == [found |-> FALSE, start |-> 0, stop |-> 0, g1 |-> <<>>, g2 |-> <<>>]

\* re.compile(open + '(.*?)' + close, re.DOTALL).search(s)
SearchTag(s, open, close) ==
    Bind(Find(s, open, 1), LAMBDA i :
        IF i = 0 THEN NoMatch
        ELSE Bind(Find(s, close, i + Len(open)), LAMBDA j :
            IF j = 0 THEN NoMatch
            ELSE [found |-> TRUE, start |-> i, stop |-> j + Len(close) - 1,
                  g1 |-> SubSeq(s, i + Len(open), j - 1), g2 |-> <<>>]))

\* re.compile(a + '(.*?)' + b + '(.*?)' + c, re.DOTALL).search(s)
SearchPair(s, a, b, c) ==
    Bind(Find(s, a, 1), LAMBDA i :
        IF i = 0 THEN NoMatch
        ELSE Bind(Find(s, b, i + Len(a)), LAMBDA j :
            IF j = 0 THEN NoMatch
            ELSE Bind(Find(s, c, j + Len(b)), LAMBDA k :
                IF k = 0 THEN NoMatch
                ELSE [found |-> TRUE, start |-> i, stop |-> k + Len(c) - 1,
                      g1 |-> SubSeq(s, i + Len(a), j - 1),
                      g2 |-> SubSeq(s, j + Len(b), k - 1)])))

\* dependencies_pattern = r'<dependencies>(.*?)</dependencies>'
dependencies_pattern(s) == SearchTag(s, DepsOpen, DepsClose)

\* execute_pattern = r'<execute>(.*?)</execute>'
execute_pattern(s) == SearchTag(s, ExecOpen, ExecClose)

\* files_block_pattern = r'<files>(.*?)</files>'
files_block_pattern(s) == SearchTag(s, FilesOpen, FilesClose)

\* single_file_pattern = r'<filename>(.*?)</filename><code>(.*?)</code>'
single_file_pattern(s) == SearchPair(s, FilenameOpen, FilenameClose \o CodeOpen, CodeClose)

\* edited_file_pattern = r'<edited_filename>(.*?)</edited_filename><edited_code>(.*?)</edited_code>'
edited_file_pattern(s) == SearchPair(s, EditedFilenameOpen, EditedFilenameClose \o EditedCodeOpen, EditedCodeClose)

\* a\s*b anchored at i: the index after the match, 0 if it does not match there
WsJoinedAt(s, a, b, i) ==
    IF ~IsAt(s, a, i) THEN 0
    ELSE Bind(LStripIdx(s, i + Len(a)), LAMBDA p : IF IsAt(s, b, p) THEN p + Len(b) ELSE 0)

RECURSIVE FindWsJoined(_, _, _, _)
\* the least index >= from where a\s*b matches, 0 if none
FindWsJoined(s, a, b, from) ==
    Bind(Find(s, a, from), LAMBDA i :
        IF i = 0 THEN 0
        ELSE IF WsJoinedAt(s, a, b, i) > 0 THEN i
        ELSE FindWsJoined(s, a, b, i + 1))

\* individual_file_pattern anchored at i:
\* r'<file>\s*<filename>(.*?)</filename>\s*<code>(.*?)</code>\s*</file>'
\* q: after <file>\s*<filename>; j: the first </filename>\s*<code> from
\* there, ending before r; k: the first </code>\s*</file> from r
FileEntryAt(s, i) ==
    Bind(WsJoinedAt(s, FileOpen, FilenameOpen, i), LAMBDA q :
        IF q = 0 THEN NoMatch
        ELSE Bind(FindWsJoined(s, FilenameClose, CodeOpen, q), LAMBDA j :
            IF j = 0 THEN NoMatch
            ELSE Bind(WsJoinedAt(s, FilenameClose, CodeOpen, j), LAMBDA r :
                Bind(FindWsJoined(s, CodeClose, FileClose, r), LAMBDA k :
                    IF k = 0 THEN NoMatch
                    ELSE [found |-> TRUE, start |-> i,
                          stop |-> WsJoinedAt(s, CodeClose, FileClose, k) - 1,
                          g1 |-> SubSeq(s, q, j - 1), g2 |-> SubSeq(s, r, k - 1)]))))

\* finditer cut short after its first match
individual_file_finditer_FirstOnly(s, from) ==
    Bind(Find(s, FileOpen, from), LAMBDA i :
        IF i = 0 THEN <<>>
        ELSE Bind(FileEntryAt(s, i), LAMBDA m :
            IF m.found THEN <<[filename |-> Strip(m.g1), code |-> Strip(m.g2)]>> ELSE <<>>))

RECURSIVE individual_file_finditer(_, _)
\* individual_file_pattern.finditer(files_content): the non-overlapping
\* matches from left to right, each as the stripped (filename, code) pair
individual_file_finditer(s, from) ==
    Bind(Find(s, FileOpen, from), LAMBDA i :
        IF i = 0 THEN <<>>
        ELSE Bind(FileEntryAt(s, i), LAMBDA m :
            IF m.found
            THEN <<[filename |-> Strip(m.g1), code |-> Strip(m.g2)]>>
                 \o individual_file_finditer(s, m.stop + 1)
            ELSE individual_file_finditer(s, i + 1)))

\* pattern.sub('', s, 1).strip() for the match m of that pattern in s
SubFirst(s, m) == Strip(Cut(s, m.start, m.stop))

(***************************************************************************)
(* BashAI._parse_ai_response (bashai.py 653-723).  The function threads    *)
(* parsed_components and remaining_response through six steps; here each  *)
(* step maps the pair [pc, rem] to the next one.                           *)
(***************************************************************************)

\* lines 658-664 and 673
ParseStart(response) ==
    [pc |-> [command |-> None, new_files |-> <<>>, edited_file |-> None,
             dependencies |-> None, explanation |-> Some(Strip(response))],
     rem |-> Strip(response)]

\* 1. Extract Dependencies (lines 675-679)
ExtractDependencies(st) ==
    Bind(dependencies_pattern(st.rem), LAMBDA deps_match :
        IF deps_match.found
        THEN [pc |-> [st.pc EXCEPT !.dependencies = Some(Strip(deps_match.g1))],
              rem |-> SubFirst(st.rem, deps_match)]
        ELSE st)

\* step 2 with line 692 left out: the matched block stays in the text
ExtractFilesBlock_BlockKept(st) ==
    Bind(files_block_pattern(st.rem), LAMBDA files_block_match :
        IF files_block_match.found
        THEN [st EXCEPT !.pc.new_files = individual_file_finditer(files_block_match.g1, 1)]
        ELSE st)

\* 2. Extract Files Block (lines 681-692)
ExtractFilesBlock(st) ==
    Bind(files_block_pattern(st.rem), LAMBDA files_block_match :
        IF files_block_match.found
        THEN [pc |-> [st.pc EXCEPT !.new_files = individual_file_finditer(files_block_match.g1, 1)],
              rem |-> SubFirst(st.rem, files_block_match)]
        ELSE st)

\* 3. Extract Edited File (lines 694-701)
ExtractEditedFile(st) ==
    Bind(edited_file_pattern(st.rem), LAMBDA edited_file_match :
        IF edited_file_match.found
        THEN [pc |-> [st.pc EXCEPT !.edited_file = Some([filename |-> Strip(edited_file_match.g1),
                                                         code |-> Strip(edited_file_match.g2)])],
              rem |-> SubFirst(st.rem, edited_file_match)]
        ELSE st)

\* step 4's guard without its edited_file half
SingleFileConsidered_NoEditCheck(new_files, edited_file) == new_files = <<>>

\* step 4's guard (line 705): new_files is empty and no edited_file was found
SingleFileConsidered(new_files, edited_file) == new_files = <<>> /\ edited_file = None

\* 4. Extract Single New File (lines 703-712)
ExtractSingleFile(st) ==
    IF ~SingleFileConsidered(st.pc.new_files, st.pc.edited_file) THEN st
    ELSE Bind(single_file_pattern(st.rem), LAMBDA single_file_match :
        IF single_file_match.found
        THEN [pc |-> [st.pc EXCEPT !.new_files = <<[filename |-> Strip(single_file_match.g1),
                                                    code |-> Strip(single_file_match.g2)]>>],
              rem |-> SubFirst(st.rem, single_file_match)]
        ELSE st)

\* 5. Extract Execute Command (lines 714-718)
ExtractCommand(st) ==
    Bind(execute_pattern(st.rem), LAMBDA execute_match :
        IF execute_match.found
        THEN [pc |-> [st.pc EXCEPT !.command = Some(Strip(execute_match.g1))],
              rem |-> SubFirst(st.rem, execute_match)]
        ELSE st)

\* step 6 with line 721 left out: the explanation stays the default of line 663
ParseFinish_DefaultKept(st) == st.pc

\* 6. Whatever remains is the explanation (lines 720-723)
ParseFinish(st) == [st.pc EXCEPT !.explanation = IF st.rem # <<>> THEN Some(st.rem) ELSE None]

parse_ai_response(response) ==
    Bind(ParseStart(response), LAMBDA s0 :
    Bind(ExtractDependencies(s0), LAMBDA s1 :
    Bind(ExtractFilesBlock(s1), LAMBDA s2 :
    Bind(ExtractEditedFile(s2), LAMBDA s3 :
    Bind(ExtractSingleFile(s3), LAMBDA s4 :
    Bind(ExtractCommand(s4), LAMBDA s5 : ParseFinish(s5)))))))

\* whether step 2 finds a <files>...</files> block in the response
FilesBlockMatched(text) == files_block_pattern(ExtractDependencies(ParseStart(text)).rem).found

(***************************************************************************)
(* Inputs: AI response texts.  A response is put together from optional    *)
(* parts, each in a few well-formed and malformed variants.                *)
(***************************************************************************)

\* the most <file> entries in one generated <files> block
MaxFiles == 2

FileNames == << <<"a",".","p","y">>, <<"b",".","j","s">>, <<"n",".","t","x","t">> >>

FileName(i) == FileNames[((i - 1) % Len(FileNames)) + 1]

FileCode(i) == <<"x">> \o FileName(i)

FileEntry(i) == FileOpen \o FilenameOpen \o FileName(i) \o FilenameClose \o <<"\n">> \o CodeOpen \o <<" ">> \o FileCode(i) \o <<" ">> \o CodeClose \o FileClose

RECURSIVE FileEntries(_, _)
FileEntries(i, n) == IF i > n THEN <<>> ELSE FileEntry(i) \o <<"\n">> \o FileEntries(i + 1, n)

DepsCmd == <<"p","i","p"," ","i">>

EditName == FileName(1)

EditCode == <<"z","z">>

SingleName == FileName(1)

SingleCode == <<"w">>

\* code of two lines, the line end written as LF and as CR LF
LinesCode == <<"u","\n","v">>

CrlfCode == <<"u","\r","\n","v">>

ExecCmd == <<"l","s">>

Prose == <<"h","i">>

\* the edit form, as the AI is told to write it
EditForm == EditedFilenameOpen \o EditName \o EditedFilenameClose \o EditedCodeOpen \o EditCode \o EditedCodeClose

\* the single new-file form
SingleForm == FilenameOpen \o SingleName \o FilenameClose \o CodeOpen \o SingleCode \o CodeClose

\* dependencies part: absent, well formed, empty content, unterminated
DepsPart(v) == CASE v = "none" -> <<>>
                 [] v = "ok" -> DepsOpen \o <<" ">> \o DepsCmd \o DepsClose
                 [] v = "empty" -> DepsOpen \o DepsClose
                 [] v = "open" -> DepsOpen \o DepsCmd

\* files part: absent, a block of n entries ("0".."MaxFiles"), a block whose
\* only entry lacks </file>, a block never closed; `inner` is extra text
\* placed inside the block, after the entries
FilesPart(v, n, inner) == CASE v = "none" -> <<>>
                            [] v = "block" -> FilesOpen \o FileEntries(1, n) \o inner \o FilesClose
                            [] v = "badentry" -> FilesOpen \o FileOpen \o FilenameOpen \o FileName(1) \o FilenameClose \o CodeOpen \o FileCode(1) \o CodeClose \o inner \o FilesClose
                            [] v = "open" -> FilesOpen \o FileEntries(1, n) \o inner

\* edit part: absent, well formed, unterminated
EditPart(v) == CASE v = "none" -> <<>>
                 [] v = "ok" -> EditForm
                 [] v = "open" -> EditedFilenameOpen \o EditName \o EditedFilenameClose \o EditedCodeOpen \o EditCode

\* single-file part: absent, well formed, well formed with code of two lines
SinglePart(v) == CASE v = "none" -> <<>>
                   [] v = "ok" -> SingleForm
                   [] v = "lines" -> FilenameOpen \o SingleName \o FilenameClose \o CodeOpen \o LinesCode \o CodeClose
                   [] v = "crlf" -> FilenameOpen \o SingleName \o FilenameClose \o CodeOpen \o CrlfCode \o CodeClose

\* the variants of a well-formed <execute>cmd</execute>
WellFormedExec == {"ok", "empty", "padded", "tagged"}

\* the cmd of a well-formed execute part: plain, empty, with whitespace
\* around it, with another protocol tag inside it
ExecBody(v) == CASE v = "ok" -> ExecCmd
                 [] v = "empty" -> <<>>
                 [] v = "padded" -> <<" ">> \o ExecCmd \o <<"\n">>
                 [] v = "tagged" -> ExecCmd \o <<" ">> \o DepsOpen \o <<"q">> \o DepsClose

\* execute part: absent, well formed (see ExecBody), unterminated, one
\* whose opening tag is broken in two by a dependencies tag, and one whose
\* closing tag comes before its opening tag
ExecPart(v) == CASE v = "none" -> <<>>
                 [] v \in WellFormedExec -> ExecOpen \o ExecBody(v) \o ExecClose
                 [] v = "open" -> ExecOpen \o ExecCmd
                 [] v = "split" -> <<"<","e","x","e">> \o DepsOpen \o <<"q">> \o DepsClose
                                   \o <<"c","u","t","e",">">> \o ExecCmd \o ExecClose
                 [] v = "inverted" -> ExecClose \o ExecCmd \o ExecOpen

ProsePart(v) == IF v = "none" THEN <<>> ELSE Prose

\* a files variant that has a closing </files>, so that text can lie inside it
Closed(v) == v \in {"block", "badentry"}

\* a response that holds an execute part and nothing else
ExecOnly(sh) == /\ sh.exec # "none"
                /\ sh.deps = "none" /\ sh.files = "none" /\ sh.nfiles = 0
                /\ sh.edit = "none" /\ ~sh.editIn /\ sh.single = "none"
                /\ sh.prose = "none" /\ ~sh.rev

\* a response that holds a single-file part and nothing else
SingleOnly(sh) == /\ sh.single # "none"
                  /\ sh.deps = "none" /\ sh.files = "none" /\ sh.nfiles = 0
                  /\ sh.edit = "none" /\ ~sh.editIn /\ sh.exec = "none"
                  /\ sh.prose = "none" /\ ~sh.rev

Shapes == { sh \in [deps : {"none", "ok", "empty", "open"},
                   files : {"none", "block", "badentry", "open"},
                   nfiles : 0..MaxFiles,
                   edit : {"none", "ok", "open"},
                   editIn : BOOLEAN,
                   single : {"none", "ok", "lines", "crlf"},
                   exec : {"none", "ok", "empty", "padded", "tagged", "open", "split", "inverted"},
                   prose : {"none", "hi"},
                   rev : BOOLEAN] :
              /\ (sh.files \in {"none", "badentry"} => sh.nfiles = 0)
              /\ (sh.editIn => sh.edit = "ok" /\ Closed(sh.files))
              /\ (sh.deps \in {"empty", "open"} => sh.edit = "none" /\ ~sh.rev)
              /\ (sh.exec \in {"padded", "open"} => sh.single = "none" /\ ~sh.rev)
              /\ (sh.exec \in {"tagged", "split", "inverted"} => ExecOnly(sh))
              /\ (sh.single \in {"lines", "crlf"} => SingleOnly(sh))
              /\ (sh.files = "open" => sh.nfiles = 1 /\ sh.prose = "none") }

\* the response text of a shape: the parts in protocol order, or reversed;
\* a response that is only a command is sent without anything around it
Build(sh) ==
    IF ExecOnly(sh) THEN ExecPart(sh.exec) ELSE
    LET d == DepsPart(sh.deps)
        f == FilesPart(sh.files, sh.nfiles, IF sh.editIn THEN EditPart(sh.edit) ELSE <<>>)
        e == IF sh.editIn THEN <<>> ELSE EditPart(sh.edit)
        s == SinglePart(sh.single)
        x == ExecPart(sh.exec)
        p == ProsePart(sh.prose)
    IN  IF sh.rev THEN p \o <<" ">> \o x \o s \o e \o f \o d
        ELSE d \o <<"\n">> \o f \o e \o s \o x \o <<" ">> \o p

(***************************************************************************)
(* State.  The interactive program is one main thread running nested       *)
(* calls: `stack` holds one frame per active call (function, position,     *)
(* locals), `ret` the value last returned, `exc` an exception in flight.   *)
(***************************************************************************)

VARIABLES
    response,   \* the raw text of the AI response being handled
    shape,      \* how that text was put together (input description)
    parsed,     \* None, or the result of _parse_ai_response on it
    config,     \* self.config: safe_mode, auto_execute
    request,    \* the call the behaviour starts with (input description)
    stack,      \* frames of the active calls, innermost last
    ret,        \* the value a call has returned, until its caller has read it
    exc,        \* "none", or the exception propagating up the stack
    spawned,    \* how often each command line was handed to subprocess
    aiQueries,  \* number of _query_ai calls made so far
    fs,         \* the files written so far: filename -> content
    mock        \* TRUE while the collaborators followed the fixed script:
                \* the AI answered every query with the same fix command,
                \* the user accepted every prompt, every command failed

vars == <<response, shape, parsed, config, request, stack, ret, exc, spawned, aiQueries, fs, mock>>

parseVars == <<response, shape, parsed>>

machineVars == <<config, request, stack, ret, exc, spawned, aiQueries, fs, mock>>

\* the deepest nesting of calls explored from a call of _execute_command
MaxDepth == 6

\* the deepest nesting of calls explored from a call of _run_code_file or
\* _debug_code_error
MaxCodeDepth == 3

\* the deepest nesting of calls explored from the interactive loop
MaxTurnDepth == 3

DepthBound == CASE request.fn = "execute_command" -> MaxDepth
                [] request.fn = "interactive_mode" -> MaxTurnDepth
                [] OTHER -> MaxCodeDepth

\* DEBUG_ATTEMPTS = 2 in _debug_command_error and _debug_code_error
DEBUG_ATTEMPTS == 2

NoShape == [deps |-> "none", files |-> "none", nfiles |-> 0, edit |-> "none", editIn |-> FALSE, single |-> "none", exec |-> "none", prose |-> "none", rev |-> FALSE]

NoRet == [output |-> [kind |-> "none", text |-> <<>>], success |-> FALSE]

IdleParse == response = <<>> /\ shape = NoShape /\ parsed = None

IdleMachine ==
    /\ config = [safe_mode |-> TRUE, auto_execute |-> FALSE, linesep |-> <<"\n">>]
    /\ request = [fn |-> "none"]
    /\ stack = <<>>
    /\ ret = NoRet
    /\ exc = "none"
    /\ spawned = <<>>
    /\ aiQueries = 0
    /\ fs = <<>>
    /\ mock = FALSE

(***************************************************************************)
(* The parser on its own                                                   *)
(***************************************************************************)

InitParse == IdleParse /\ IdleMachine

\* the AI collaborator returns a response text
Receive ==
    /\ parsed = None /\ response = <<>>
    /\ \E sh \in Shapes : shape' = sh /\ response' = Build(sh)
    /\ UNCHANGED <<parsed, machineVars>>

\* parsed = self._parse_ai_response(ai_response_raw)
Parse ==
    /\ parsed = None /\ response # <<>>
    /\ parsed' = Some(parse_ai_response(response))
    /\ UNCHANGED <<response, shape, machineVars>>

NextParse == Receive \/ Parse

SpecParse == InitParse /\ [][NextParse]_vars

(***************************************************************************)
(* Properties of the parser                                                *)
(***************************************************************************)

\* the three primary fields of a parse result that are populated
Populated(p) == (IF p.command # None THEN {"command"} ELSE {})
                \cup (IF p.new_files # <<>> THEN {"new_files"} ELSE {})
                \cup (IF p.edited_file # None THEN {"edited_file"} ELSE {})

\* C7 as stated: for every response text the parser populates at most one
\* of command, new_files and edited_file.
C7_AtMostOnePrimary == parsed # None => Cardinality(Populated(parsed[1])) <= 1

\* C7 amended: for every response text in which no <files> block matches, at
\* most one of new_files and edited_file is populated (command may be
\* populated beside either of them).
C7_OneFilePayloadWithoutBlock ==
    (parsed # None /\ ~FilesBlockMatched(response))
        => ~(parsed[1].new_files # <<>> /\ parsed[1].edited_file # None)

\* a response with an edit form, a single-file form and a command but no
\* <files> block was parsed: the edit and the command are populated
C7_Witness ==
    /\ parsed # None
    /\ shape.files = "none" /\ shape.edit = "ok" /\ shape.single = "ok" /\ shape.exec = "ok"
    /\ Populated(parsed[1]) = {"command", "edited_file"}

\* C9 as stated: for every response in which a <files>...</files> block
\* matches, edited_file stays null.
C9_EditOnlyWithoutBlock ==
    (parsed # None /\ FilesBlockMatched(response)) => parsed[1].edited_file = None

\* C9 amended: for every response in which a <files>...</files> block
\* matches, edited_file is populated exactly when an edit form stands in the
\* text outside the matched block, and then holds that form; an edit form
\* inside the block never populates it.
C9_EditFromOutsideBlock ==
    (parsed # None /\ FilesBlockMatched(response))
        => parsed[1].edited_file = IF shape.edit = "ok" /\ ~shape.editIn
                                   THEN Some([filename |-> EditName, code |-> EditCode])
                                   ELSE None

\* a response whose only edit form lies inside the matched block was
\* parsed: the block's files are populated, edited_file is not
C9_Witness ==
    /\ parsed # None
    /\ shape.files = "block" /\ shape.editIn
    /\ Len(parsed[1].new_files) = MaxFiles
    /\ parsed[1].edited_file = None

\* C10: for every response in which a <files>...</files> block matches, no
\* new_files entry is produced from a top-level <filename><code> pair.
C10_NoSingleAfterBlock ==
    (parsed # None /\ FilesBlockMatched(response))
        => \A i \in DOMAIN parsed[1].new_files :
              parsed[1].new_files[i] # [filename |-> SingleName, code |-> SingleCode]

\* C11: for every response that is exactly one well-formed
\* <execute>cmd</execute>, the parser returns command = cmd, explanation
\* null, and new_files, edited_file and dependencies unpopulated (cmd may
\* have whitespace around it or hold other protocol tags).
C11_ExecuteOnly ==
    \A v \in WellFormedExec :
        (parsed # None /\ response = ExecOpen \o ExecBody(v) \o ExecClose)
            => parsed[1] = [command |-> Some(ExecBody(v)), new_files |-> <<>>,
                            edited_file |-> None, dependencies |-> None,
                            explanation |-> None]

\* none of the five tag patterns of lines 667-671 matches the trimmed text
NoPatternMatches(text) ==
    Bind(Strip(text), LAMBDA s :
        /\ ~dependencies_pattern(s).found
        /\ ~execute_pattern(s).found
        /\ ~files_block_pattern(s).found
        /\ ~single_file_pattern(s).found
        /\ ~edited_file_pattern(s).found)

\* a parse result with nothing populated but, possibly, the explanation
OnlyExplanation(e) ==
    [command |-> None, new_files |-> <<>>, edited_file |-> None, dependencies |-> None, explanation |-> e]

\* C24 as stated: for every response in which no tag pattern matches (no
\* tags, or only unterminated or inverted ones) the parser returns the whole
\* trimmed response as explanation, with command, new_files, edited_file and
\* dependencies unpopulated.
C24_WholeResponseIsExplanation ==
    (parsed # None /\ NoPatternMatches(response))
        => parsed[1] = OnlyExplanation(Some(Strip(response)))

\* C24 amended: for every response in which no tag pattern matches, the
\* parser returns a result with command, new_files, edited_file and
\* dependencies unpopulated, whose explanation is the whole trimmed response
\* when that is not empty and null when the response is blank.
C24_TrimmedResponseOrNull ==
    (parsed # None /\ NoPatternMatches(response))
        => parsed[1] = OnlyExplanation(IF Strip(response) = <<>> THEN None ELSE Some(Strip(response)))

\* a response of unterminated tags only was parsed: every character of it,
\* tags included, is the explanation
C24_Witness ==
    /\ parsed # None
    /\ shape.deps = "open" /\ shape.exec = "open" /\ shape.files = "none" /\ shape.edit = "none"
    /\ NoPatternMatches(response)
    /\ parsed[1].explanation = Some(Strip(response))
    /\ Contains(parsed[1].explanation[1], ExecOpen)

\* the <file> entries written into a generated block of n entries
BlockEntries(n) == [i \in 1..n |-> [filename |-> FileName(i), code |-> FileCode(i)]]

\* C12: for every response with a <files> block followed by a trailing
\* <execute>, new_files holds every <file> entry of the block in document
\* order and command is populated from the trailing tag, both at once.
C12_FilesAndTrailingCommand ==
    (/\ parsed # None
     /\ shape.files = "block" /\ shape.nfiles >= 1
     /\ shape.exec \in {"ok", "padded"} /\ ~shape.rev)
        => /\ parsed[1].new_files = BlockEntries(shape.nfiles)
           /\ parsed[1].command = Some(ExecCmd)

\* a block of MaxFiles entries followed by a command was parsed: all
\* entries and the command are populated together
C12_Witness ==
    /\ parsed # None
    /\ shape.files = "block" /\ shape.nfiles = MaxFiles /\ ~shape.editIn
    /\ shape.exec = "ok" /\ ~shape.rev
    /\ Len(parsed[1].new_files) = MaxFiles
    /\ parsed[1].new_files[1].filename # parsed[1].new_files[MaxFiles].filename
    /\ parsed[1].command = Some(ExecCmd)

\* steps 2 to 5 applied to the text as it stands, the dependencies span
\* left where it is
MatchedInPlace(text) ==
    ExtractCommand(ExtractSingleFile(ExtractEditedFile(ExtractFilesBlock(ParseStart(text))))).pc

\* C13: removing the <dependencies> span never changes what steps 2 to 5
\* match or capture: command, new_files and edited_file of the parse equal
\* what the same steps give on the text with the span still in place.
C13_DependencyRemovalNeutral ==
    parsed # None =>
        Bind(MatchedInPlace(response), LAMBDA q :
            /\ parsed[1].command = q.command
            /\ parsed[1].new_files = q.new_files
            /\ parsed[1].edited_file = q.edited_file)

(***************************************************************************)
(* Calls, returns, exceptions, user input                                  *)
(***************************************************************************)

Top == stack[Len(stack)]

\* the main thread is at position pc of function fn, no exception in flight
At(fn, pc) == /\ stack # <<>>
              /\ exc = "none"
              /\ Top.fn = fn
              /\ Top.pc = pc

\* the top frame with some locals changed
Goto(frame) == stack' = [stack EXCEPT ![Len(stack)] = frame]

\* return v to the caller
Return(v) == stack' = SubSeq(stack, 1, Len(stack) - 1) /\ ret' = v

\* call a function: `caller` is the calling frame as it waits for the result
\* (the position it resumes at; locals it never reads again are dropped)
Call(callee, caller) ==
    /\ Len(stack) < DepthBound
    /\ stack' = [stack EXCEPT ![Len(stack)] = caller] \o <<callee>>

\* a spawn that is counted twice
Spawn_Twice(cmd) ==
    spawned' = [c \in DOMAIN spawned \cup {cmd} |->
                   IF c = cmd
                   THEN (IF c \in DOMAIN spawned THEN spawned[c] ELSE 0) + 2
                   ELSE spawned[c]]

\* subprocess.run / subprocess.Popen is handed a command line
Spawn(cmd) ==
    spawned' = [c \in DOMAIN spawned \cup {cmd} |->
                   IF c = cmd
                   THEN (IF c \in DOMAIN spawned THEN spawned[c] ELSE 0) + 1
                   ELSE spawned[c]]

Result(kind, text, success) == [output |-> [kind |-> kind, text |-> text], success |-> success]

\* lines the user may type at a prompt
Lines == { <<"y">>, <<"n">>, <<>>, <<"Y">>, <<" ","y"," ">>, <<"N">>, <<"n"," ">>, <<"n","o">> }

\* input(...).strip().lower() == 'y'
SaysYes(line) == Lower(Strip(line)) = <<"y">>

(***************************************************************************)
(* BashAI._execute_command (bashai.py 512-558)                             *)
(***************************************************************************)

\* dangerous_commands (bashai.py 521)
dangerous_commands == <<
    <<"r","m"," ","-","r","f"," ","/">>,
    <<"d","e","l"," ","/","f"," ","/","s"," ","/","q"," ","C",":","\\">>,
    <<"f","o","r","m","a","t">>,
    <<"f","d","i","s","k">>,
    <<"m","k","f","s">> >>

\* the blocklist test without the .lower() of line 524
IsDangerous_CaseSensitive(cmd) == \E i \in 1..Len(dangerous_commands) : Contains(cmd, dangerous_commands[i])

\* any(danger in cmd.lower() for danger in dangerous_commands)
IsDangerous(cmd) == \E i \in 1..Len(dangerous_commands) : Contains(Lower(cmd), dangerous_commands[i])

\* the safety check of lines 522-526
Blocked(cmd) == config.safe_mode /\ IsDangerous(cmd)

\* what subprocess.run can come back with: an exit code with the captured
\* stdout and stderr, or an exception raised while spawning
Streams == { <<>>, <<"m","s","g","\n">> }

ExitCodes == {0, 1}

RunOutcomes == [raised : {FALSE}, returncode : ExitCodes, stdout : Streams, stderr : Streams]
               \cup {[raised |-> TRUE, returncode |-> 1, stdout |-> <<>>, stderr |-> <<>>]}

\* lines 537-543: the (output, success) a completed process yields
success_of(returncode) == returncode = 0

\* `consent` records, until the safety check is passed, what the user
\* answered to the question that led to the call
ExecuteFrame(cmd, show_command) == [fn |-> "execute_command", pc |-> "check", cmd |-> cmd, show_command |-> show_command, error |-> NoRet.output, consent |-> "none"]

\* what the user said to a yes/no question: 'y' in any letter case, or
\* just Enter where yes is the default ([Y/n]), is a yes
Consent(line, default_yes) ==
    IF Lower(Strip(line)) = <<"y">> \/ (default_yes /\ Strip(line) = <<>>) THEN "given" ELSE "refused"

\* the call self._execute_command(cmd, show_command=True) made after the
\* user answered `line` to the question before it
AskedFrame(cmd, line, default_yes) == [ExecuteFrame(cmd, TRUE) EXCEPT !.consent = Consent(line, default_yes)]

DebugCommandFrame(command, error) == [fn |-> "debug_command_error", pc |-> "query", command |-> command, error_message |-> error, attempt |-> 1, suggested |-> <<>>, answer |-> "none"]

\* lines 520-526: the blocklist check, before anything is spawned
E_Check ==
    /\ At("execute_command", "check")
    /\ IF Blocked(Top.cmd)
       THEN Return(Result("blocked", <<>>, FALSE))
       ELSE Goto([Top EXCEPT !.pc = "spawn", !.consent = "none"]) /\ UNCHANGED ret
    /\ UNCHANGED <<parseVars, config, request, fs, exc, spawned, aiQueries, mock>>

\* lines 528-545: subprocess.run and the branch on its return code
E_Spawn ==
    /\ At("execute_command", "spawn")
    /\ Spawn(Top.cmd)
    /\ \E o \in RunOutcomes :
         /\ mock' = (mock /\ ~o.raised /\ o.returncode # 0)
         /\ IF o.raised
            THEN Return(Result("execution_error", <<>>, FALSE))
            ELSE IF success_of(o.returncode)
            THEN Return(IF o.stdout # <<>>
                        THEN Result("stdout", Strip(o.stdout), TRUE)
                        ELSE Result("completed_sentinel", <<>>, TRUE))
            ELSE /\ Goto([Top EXCEPT !.pc = "debug_prompt",
                                     !.error = IF o.stderr # <<>>
                                               THEN [kind |-> "stderr", text |-> Strip(o.stderr)]
                                               ELSE [kind |-> "exit_code_sentinel", text |-> <<>>]])
                 /\ UNCHANGED ret
    /\ UNCHANGED <<parseVars, config, request, fs, exc, aiQueries>>

\* lines 546-551: "Attempt to debug this command with AI? [y/N]"; an
\* EOFError from input() is caught by the except Exception of line 556
E_DebugPrompt ==
    /\ At("execute_command", "debug_prompt")
    /\ \/ \E line \in Lines :
            /\ mock' = (mock /\ SaysYes(line))
            /\ IF SaysYes(line)
               THEN Call(DebugCommandFrame(Top.cmd, Top.error), [Top EXCEPT !.pc = "debug_ret", !.error = NoRet.output]) /\ UNCHANGED ret
               ELSE Return(Result("debug_skipped", <<>>, FALSE))
       \/ /\ mock' = FALSE
          /\ Return(Result("execution_error", <<>>, FALSE))
    /\ UNCHANGED <<parseVars, config, request, fs, exc, spawned, aiQueries>>

\* line 548: return self._debug_command_error(cmd, error)
E_DebugRet ==
    /\ At("execute_command", "debug_ret")
    /\ Return(ret)
    /\ UNCHANGED <<parseVars, config, request, fs, exc, spawned, aiQueries, mock>>

\* lines 556-558: an exception raised below the try block is returned as data
E_Except ==
    /\ stack # <<>> /\ exc # "none"
    /\ Top.fn = "execute_command"
    /\ Return(Result("execution_error", <<>>, FALSE))
    /\ exc' = "none"
    /\ UNCHANGED <<parseVars, config, request, fs, spawned, aiQueries, mock>>

(***************************************************************************)
(* BashAI._debug_command_error (bashai.py 1050-1108)                       *)
(***************************************************************************)

\* the response the scripted AI collaborator gives to every debug query
FixShape == [NoShape EXCEPT !.exec = "ok"]

\* what _query_ai can come back with in a command debug session
DebugCmdShapes == { FixShape,
                    [NoShape EXCEPT !.prose = "hi"],
                    [NoShape EXCEPT !.exec = "empty"],
                    [NoShape EXCEPT !.exec = "padded", !.prose = "hi"] }

Replies(shapes) == [success : {TRUE}, shape : shapes] \cup [success : {FALSE}, shape : {NoShape, FixShape}]

\* the for loop's `continue` / fall off the end of the body: next attempt,
\* or the fallback return of line 1108 once the attempts are used up
DC_NextAttempt(f) ==
    IF f.attempt < DEBUG_ATTEMPTS
    THEN Goto([f EXCEPT !.pc = "query", !.attempt = f.attempt + 1]) /\ ret' = NoRet
    ELSE Return(Result("debug_exhausted", <<>>, FALSE))

\* lines 1059-1106 up to the next prompt: one _query_ai round trip, the
\* parse of the response and the branch on parsed['command']
DC_Query ==
    /\ At("debug_command_error", "query")
    /\ aiQueries' = aiQueries + 1
    /\ \E r \in Replies(DebugCmdShapes) :
         /\ mock' = (mock /\ r.success /\ r.shape = FixShape)
         /\ IF ~r.success
            THEN Goto([Top EXCEPT !.pc = "query_failed", !.answer = "none"]) /\ UNCHANGED ret
            ELSE LET p == parse_ai_response(Build(r.shape))
                 IN  IF Truthy(p.command)
                     THEN Goto([Top EXCEPT !.pc = "confirm", !.suggested = p.command[1], !.answer = "none"]) /\ UNCHANGED ret
                     ELSE IF Top.attempt < DEBUG_ATTEMPTS
                     THEN Goto([Top EXCEPT !.pc = "retry", !.answer = "none"]) /\ UNCHANGED ret
                     ELSE Return(Result("debug_no_fix", <<>>, FALSE))
    /\ UNCHANGED <<parseVars, config, request, fs, exc, spawned>>

\* lines 1075-1077: the query failed; the error is printed and `continue`
\* goes on to the next attempt
DC_QueryFailed ==
    /\ At("debug_command_error", "query_failed")
    /\ DC_NextAttempt(Top)
    /\ UNCHANGED <<parseVars, config, request, fs, exc, spawned, aiQueries, mock>>

\* lines 1085-1093: "Execute this suggested command? [y/N]"
DC_Confirm ==
    /\ At("debug_command_error", "confirm")
    /\ \/ /\ \E line \in Lines :
               /\ mock' = (mock /\ SaysYes(line))
               /\ IF SaysYes(line)
                  THEN Call(AskedFrame(Top.suggested, line, FALSE), [Top EXCEPT !.pc = "exec_ret"]) /\ UNCHANGED ret
                  ELSE Return(Result("debug_declined", <<>>, FALSE))
          /\ UNCHANGED exc
       \/ /\ mock' = FALSE
          /\ exc' = "EOFError"
          /\ UNCHANGED <<stack, ret>>
    /\ UNCHANGED <<parseVars, config, request, fs, spawned, aiQueries>>

\* line 1090: return output, exec_success
DC_ExecRet ==
    /\ At("debug_command_error", "exec_ret")
    /\ Return(ret)
    /\ UNCHANGED <<parseVars, config, request, fs, exc, spawned, aiQueries, mock>>

\* lines 1098-1102: "Attempt another AI debugging pass? [y/N]"
DC_Retry ==
    /\ At("debug_command_error", "retry")
    /\ \/ /\ \E line \in Lines :
               /\ mock' = (mock /\ SaysYes(line))
               /\ IF SaysYes(line)
                  THEN DC_NextAttempt([Top EXCEPT !.answer = Consent(line, FALSE)])
                  ELSE Return(Result("debug_aborted", <<>>, FALSE))
          /\ UNCHANGED exc
       \/ /\ mock' = FALSE
          /\ exc' = "EOFError"
          /\ UNCHANGED <<stack, ret>>
    /\ UNCHANGED <<parseVars, config, request, fs, spawned, aiQueries>>

\* an exception passes through a frame that has no handler for it
Propagate ==
    /\ stack # <<>> /\ exc # "none"
    /\ Top.fn \in {"debug_command_error", "debug_code_error", "run_code_file", "apply_file_edit", "handle_edit"}
    /\ stack' = SubSeq(stack, 1, Len(stack) - 1)
    /\ UNCHANGED <<parseVars, config, request, fs, ret, exc, spawned, aiQueries, mock>>

NextCmd == \/ E_Check \/ E_Spawn \/ E_DebugPrompt \/ E_DebugRet \/ E_Except
           \/ DC_Query \/ DC_QueryFailed \/ DC_Confirm \/ DC_ExecRet \/ DC_Retry \/ Propagate

(***************************************************************************)
(* Inputs of the command executor: every letter-case variant of every      *)
(* blocklist entry, bare and inside a longer command, and harmless ones    *)
(***************************************************************************)

\* the positions of s that hold a letter
LetterIdx(s) == {i \in 1..Len(s) : LowerChar(s[i]) # UpperChar(s[i])}

\* s with the letters at positions up in upper case, the others in lower case
CaseVariant(s, up) == [i \in 1..Len(s) |-> IF i \in up THEN UpperChar(s[i]) ELSE LowerChar(s[i])]

\* letter-case patterns: all lower, all upper, first or last letter upper,
\* every other character upper, and every single letter but one upper
CasePatterns(s) == { {}, LetterIdx(s), {Min(LetterIdx(s))}, {Max(LetterIdx(s))}, {i \in LetterIdx(s) : i % 2 = 1} }

CaseVariants(s) == {CaseVariant(s, up) : up \in CasePatterns(s)}

HarmlessCmds == { <<"l","s">>, <<"r","m"," ","-","r","f">>, <<"r","m"," ","-","r"," ","/">>, <<"f","o","r","m","a","s">> }

CmdInputs == HarmlessCmds
             \cup UNION { CaseVariants(dangerous_commands[i]) : i \in 1..Len(dangerous_commands) }
             \cup UNION { { <<"s","u","d","o"," ">> \o v \o <<"*">> : v \in CaseVariants(dangerous_commands[i]) } : i \in 1..Len(dangerous_commands) }

\* self._execute_command(cmd) is called, safe mode on or off
InitExec ==
    /\ IdleParse
    /\ config \in [safe_mode : BOOLEAN, auto_execute : {FALSE}, linesep : {<<"\n">>}]
    /\ \E cmd \in CmdInputs :
         /\ request = [fn |-> "execute_command", cmd |-> cmd]
         /\ stack = <<ExecuteFrame(cmd, TRUE)>>
    /\ ret = NoRet
    /\ exc = "none"
    /\ spawned = <<>>
    /\ aiQueries = 0
    /\ fs = <<>>
    /\ mock = TRUE

SpecExec == InitExec /\ [][NextCmd]_vars

(***************************************************************************)
(* Properties of the command executor and the command debug loop           *)
(***************************************************************************)

\* the command the behaviour started with contains `entry` in some letter case
RequestContains(entry) ==
    request.fn = "execute_command" /\ Contains(Lower(request.cmd), Lower(entry))

\* _execute_command(request.cmd) has not got past the safety check: nothing
\* was spawned, no debug prompt or AI query followed, and if it has returned,
\* it returned the blocked result with success = False
StoppedAtSafetyCheck ==
    /\ spawned = <<>>
    /\ aiQueries = 0
    /\ IF stack = <<>>
       THEN ret = Result("blocked", <<>>, FALSE)
       ELSE Len(stack) = 1 /\ Top.fn = "execute_command" /\ Top.pc = "check"

\* C1: with a failing command, an AI that always returns the same <execute>
\* fix, a user who accepts every prompt and a fix that always fails, the
\* debugging never issues more than maxAttempts AI queries, and when it has
\* ended it has issued exactly maxAttempts and reports the exhausted outcome.
C1_ExactlyMaxAttempts ==
    (mock /\ ~Blocked(request.cmd))
        => /\ aiQueries <= DEBUG_ATTEMPTS
           /\ stack = <<>> => /\ aiQueries = DEBUG_ATTEMPTS
                              /\ ret = Result("debug_exhausted", <<>>, FALSE)

\* C4: with safe mode on, a command containing 'rm -rf /' in any letter
\* case is never spawned, is followed by no debug prompt or AI query, and
\* returns success = False.
C4_RmRfBlocked ==
    (config.safe_mode /\ RequestContains(<<"r","m"," ","-","r","f"," ","/">>))
        => StoppedAtSafetyCheck

\* an upper-case 'RM -RF /' inside a longer command came back blocked
C4_Witness ==
    /\ config.safe_mode
    /\ request.cmd = <<"s","u","d","o"," ","R","M"," ","-","R","F"," ","/","*">>
    /\ stack = <<>>
    /\ ret = Result("blocked", <<>>, FALSE)

\* C5: with safe mode on, a command containing any blocklist entry in any
\* letter case is never spawned and returns success = False.
C5_EveryEntryBlocked ==
    (config.safe_mode /\ \E i \in 1..Len(dangerous_commands) : RequestContains(dangerous_commands[i]))
        => StoppedAtSafetyCheck

\* the innermost call is _execute_command, its command was spawned and
\* exited non-zero (the function is at or past its debug prompt)
FailedCommandPending ==
    /\ stack # <<>> /\ exc = "none"
    /\ Top.fn = "execute_command"
    /\ Top.pc \in {"debug_prompt", "debug_ret"}

\* the innermost call returns in this step
TopReturns == stack' = SubSeq(stack, 1, Len(stack) - 1) /\ exc' = "none"

\* C14: the success flag _execute_command returns is true only if the
\* command's own exit code is 0: whenever a call whose command exited
\* non-zero returns, whatever happened at its prompts, it returns
\* success = False.
C14_FailedCommandNeverSucceeds ==
    [][(FailedCommandPending /\ TopReturns) => ~ret'.success]_vars

\* C15: when a spawned command exits non-zero, the output _execute_command
\* returns is the command's stderr trimmed, or the exit code sentinel when
\* stderr is empty, on every path: the error computed at line 541 when the
\* user declines debugging, and one of the two kinds after debugging.
C15_FailureOutputIsStderr ==
    [][(FailedCommandPending /\ TopReturns)
          => IF Top.pc = "debug_prompt"
             THEN ret'.output = Top.error
             ELSE ret'.output.kind \in {"stderr", "exit_code_sentinel"}]_vars

\* the innermost call is _execute_command and handles a failure: an
\* exception has arrived in its try block, or its command exited non-zero
ExecuteFailureHandled ==
    /\ stack # <<>>
    /\ Top.fn = "execute_command"
    /\ exc # "none" \/ Top.pc \in {"debug_prompt", "debug_ret"}

\* the innermost call ends in this step, by a return or by an exception
TopEnds == stack' = SubSeq(stack, 1, Len(stack) - 1)

\* C25: _execute_command never raises to its caller: a non-zero exit, a
\* failure to spawn and any error raised while the failure is handled (the
\* debug prompt included) all end the call by a return, and the value
\* returned has success = False.
C25_FailuresReturnedFalse ==
    [][(TopEnds /\ (ExecuteFailureHandled \/ (At("execute_command", "spawn") /\ ret'.output.kind = "execution_error")))
          => exc' = "none" /\ ~ret'.success]_vars

(***************************************************************************)
(* BashAI._run_code_file (bashai.py 745-902): the streaming runner.  The   *)
(* spawned process is a record in the frame: `state` and `exitcode` are    *)
(* the operating system's view, `returncode` is Popen.returncode (None     *)
(* until a poll or wait has reaped the process).                           *)
(***************************************************************************)

\* a bool returned by a function
BoolResult(b) == Result("bool", <<>>, b)

\* input(...).strip().lower() != 'n'
NotNo(line) == Lower(Strip(line)) # <<"n">>

\* os.path.splitext(filename)[1]: from the last dot of the last path
\* component on, unless only dots precede it in that component
Ext(p) ==
    Bind(Max({0} \cup {i \in 1..Len(p) : p[i] = "/"}), LAMBDA sep :
    Bind(Max({0} \cup {i \in 1..Len(p) : p[i] = "."}), LAMBDA dot :
        IF dot > sep /\ \E k \in (sep + 1)..(dot - 1) : p[k] # "."
        THEN SubSeq(p, dot, Len(p))
        ELSE <<>>))

\* runners.get(ext) (lines 752-760)
runners(ext) ==
    CASE ext = <<".","p","y">> -> Some(<<"p","y","t","h","o","n">>)
      [] ext = <<".","j","s">> -> Some(<<"n","o","d","e">>)
      [] ext = <<".","s","h">> -> Some(<<"b","a","s","h">>)
      [] ext = <<".","p","s","1">> -> Some(<<"p","o","w","e","r","s","h","e","l","l",".","e","x","e"," ","-","E","x","e","c","u","t","i","o","n","P","o","l","i","c","y"," ","B","y","p","a","s","s"," ","-","F","i","l","e">>)
      [] OTHER -> None

\* ' '.join(command_parts) of line 789
RunnerCommand(filename) == runners(Lower(Ext(filename)))[1] \o <<" ">> \o filename

NoProcess == [state |-> "none", exitcode |-> 0, returncode |-> None, terminated |-> FALSE]

\* exit codes of a process that was never signalled
NaturalExitCodes == {0, 1}

\* exit codes of a process that received SIGTERM: killed by the signal
\* (-15), or a handler of its own that exits with 0 or 1
SigtermExitCodes == {0 - 15, 0, 1}

\* what subprocess.Popen can do at line 803
PopenOutcomes == {"started", "FileNotFoundError", "OSError"}

\* lines typed at the halt prompt of line 825
HaltLines == { <<"s","t","o","p">>, <<" ","S","T","O","P"," ">>, <<>>, <<"g","o">> }

\* user_input == 'stop' (line 826)
SaysStop(line) == Lower(Strip(line)) = <<"s","t","o","p">>

\* Popen.poll(): reap the process if it has exited
Poll(p) == IF p.state = "exited" THEN [p EXCEPT !.returncode = Some(p.exitcode)] ELSE p

\* a terminate() that polls and sends nothing
Terminate_Unsent(p) == Poll(p)

\* Popen.terminate(): poll, and signal the process only if it still runs
Terminate(p) == IF p.state = "running" THEN [p EXCEPT !.terminated = TRUE] ELSE Poll(p)

\* lines 853-859: wait(timeout=5), and kill() on TimeoutExpired; kill is
\* not followed by a wait, so returncode stays None
WaitOrKill(p) == IF p.state = "running" THEN [p EXCEPT !.state = "killed"] ELSE Poll(p)

\* the two pipes of the spawned process, each read by a thread of its own
Pipes == {"stdout", "stderr"}

\* the reader threads: not started, in the loop of line 732, or finished
NoReaders == [s \in Pipes |-> "none"]

RunCodeFrame(filename, code_content, dependencies_cmd) ==
    [fn |-> "run_code_file", pc |-> "start", filename |-> filename, code_content |-> code_content,
     dependencies_cmd |-> dependencies_cmd, process |-> NoProcess, stop_typed |-> FALSE,
     readers |-> NoReaders, caught |-> FALSE, closed |-> FALSE,
     interrupted |-> FALSE]

DebugCodeFrame(filename, code_content) ==
    [fn |-> "debug_code_error", pc |-> "query", filename |-> filename, code_content |-> code_content,
     attempt |-> 1, parsed |-> None, rerun |-> None, ran |-> None, answer |-> "none"]

ApplyEditFrame(filename, new_content) ==
    [fn |-> "apply_file_edit", pc |-> "confirm", filename |-> filename, new_content |-> new_content,
     answer |-> None]

\* input() hits end of input: EOFError is raised in the frame on top
RaiseEOF == exc' = "EOFError" /\ UNCHANGED <<stack, ret>>

\* lines 752-768: the runner lookup and the branch on dependencies_cmd
R_Start ==
    /\ At("run_code_file", "start")
    /\ IF runners(Lower(Ext(Top.filename))) = None
       THEN Return(BoolResult(FALSE))
       ELSE /\ Goto([Top EXCEPT !.pc = IF Truthy(Top.dependencies_cmd) THEN "deps_prompt" ELSE "popen"])
            /\ UNCHANGED ret
    /\ UNCHANGED <<parseVars, config, request, fs, exc, spawned, aiQueries, mock>>

\* lines 769-773, 783-784: "Install these dependencies before running? [Y/n]"
R_DepsPrompt ==
    /\ At("run_code_file", "deps_prompt")
    /\ \/ /\ \E line \in Lines :
               IF NotNo(line)
               THEN Call(AskedFrame(Top.dependencies_cmd[1], line, TRUE), [Top EXCEPT !.pc = "deps_ret"])
               ELSE Goto([Top EXCEPT !.pc = "popen"])
          /\ UNCHANGED <<ret, exc>>
       \/ RaiseEOF
    /\ UNCHANGED <<parseVars, config, request, fs, spawned, aiQueries, mock>>

\* lines 773-782: the install came back
R_DepsRet ==
    /\ At("run_code_file", "deps_ret")
    /\ Goto([Top EXCEPT !.pc = IF ret.success THEN "popen" ELSE "proceed_prompt"])
    /\ ret' = NoRet
    /\ UNCHANGED <<parseVars, config, request, fs, exc, spawned, aiQueries, mock>>

\* lines 775-780: "Proceed to run code despite dependency installation failure? [y/N]"
R_ProceedPrompt ==
    /\ At("run_code_file", "proceed_prompt")
    /\ \/ /\ \E line \in Lines :
               IF SaysYes(line)
               THEN Goto([Top EXCEPT !.pc = "popen"]) /\ UNCHANGED ret
               ELSE Return(BoolResult(FALSE))
          /\ UNCHANGED exc
       \/ RaiseEOF
    /\ UNCHANGED <<parseVars, config, request, fs, spawned, aiQueries, mock>>

\* lines 787-817, 843-850: subprocess.Popen; when it raises, the except
\* clauses return False and the finally clause finds no process
R_Popen ==
    /\ At("run_code_file", "popen")
    /\ Spawn(RunnerCommand(Top.filename))
    /\ \E o \in PopenOutcomes :
         IF o = "started"
         THEN /\ Goto([Top EXCEPT !.pc = "loop", !.process.state = "running",
                                  !.readers = [s \in Pipes |-> "reading"]])
              /\ UNCHANGED ret
         ELSE Return(BoolResult(FALSE))
    /\ UNCHANGED <<parseVars, config, request, fs, exc, aiQueries, mock>>

\* line 820: while process.poll() is None
R_Poll ==
    /\ At("run_code_file", "loop")
    /\ Goto([Top EXCEPT !.pc = IF Top.process.state = "running" THEN "input" ELSE "finally",
                        !.process = Poll(Top.process)])
    /\ UNCHANGED <<parseVars, config, request, fs, ret, exc, spawned, aiQueries, mock>>

\* lines 821-841: the halt prompt; 'stop' and end of input terminate the
\* process and leave the loop, any other line goes round again.  Lines
\* 846-850: a write of lines 823-832 that raises (the spinner characters on
\* a stdout that cannot encode them, a closed stdout) is caught by the
\* except Exception clause, which terminates the process if poll() finds it
\* running and returns False through the finally clause
R_Input ==
    /\ At("run_code_file", "input")
    /\ \/ \E line \in HaltLines :
            IF SaysStop(line)
            THEN Goto([Top EXCEPT !.pc = "finally", !.process = Terminate(Top.process), !.stop_typed = TRUE,
                                   !.interrupted = FALSE])
            ELSE Goto([Top EXCEPT !.pc = "loop", !.interrupted = FALSE])
       \/ Goto([Top EXCEPT !.pc = "finally", !.process = Terminate(Top.process), !.interrupted = FALSE])
       \/ Goto([Top EXCEPT !.pc = "finally", !.process = Terminate(Top.process), !.caught = TRUE,
                           !.interrupted = FALSE])
    /\ UNCHANGED <<parseVars, config, request, fs, ret, exc, spawned, aiQueries, mock>>

\* what a SIGINT does to the input() of line 825 once __init__ has
\* installed _signal_handler (lines 166, 174-178), which only prints: on
\* POSIX the handler runs and the read is resumed; where the console read
\* is aborted by Ctrl+C, input() raises KeyboardInterrupt all the same
SigintOutcomes == {"resumed", "KeyboardInterrupt"}

\* SIGINT arrives while the halt prompt of line 825 is waiting; a raised
\* KeyboardInterrupt is caught at line 837, which terminates the process
\* and leaves the loop
R_Sigint ==
    /\ At("run_code_file", "input")
    /\ ~Top.interrupted
    /\ \E o \in SigintOutcomes :
         IF o = "resumed"
         THEN Goto([Top EXCEPT !.interrupted = TRUE])
         ELSE Goto([Top EXCEPT !.pc = "finally", !.process = Terminate(Top.process), !.interrupted = TRUE])
    /\ UNCHANGED <<parseVars, config, request, fs, ret, exc, spawned, aiQueries, mock>>

\* the spawned process exits, by itself or on the SIGTERM it was sent
P_Exit ==
    /\ stack # <<>>
    /\ Top.fn = "run_code_file"
    /\ Top.process.state = "running"
    /\ \E c \in (IF Top.process.terminated THEN SigtermExitCodes ELSE NaturalExitCodes) :
         Goto([Top EXCEPT !.process.state = "exited", !.process.exitcode = c])
    /\ UNCHANGED <<parseVars, config, request, fs, ret, exc, spawned, aiQueries, mock>>

\* _read_output_stream (lines 726-743): a reader thread appends the lines
\* it reads to its buffer; readline returns b'' once the process is gone
\* and the pipe is drained, and the thread closes the stream and ends
Rd_Eof ==
    /\ stack # <<>>
    /\ Top.fn = "run_code_file"
    /\ Top.process.state \in {"exited", "killed"}
    /\ \E s \in Pipes :
         /\ Top.readers[s] = "reading"
         /\ Goto([Top EXCEPT !.readers[s] = "done"])
    /\ UNCHANGED <<parseVars, config, request, fs, ret, exc, spawned, aiQueries, mock>>

\* lines 851-859: the finally clause waits for the process or kills it
R_Wait ==
    /\ At("run_code_file", "finally")
    /\ Goto([Top EXCEPT !.pc = "join", !.process = WaitOrKill(Top.process), !.interrupted = FALSE])
    /\ UNCHANGED <<parseVars, config, request, fs, ret, exc, spawned, aiQueries, mock>>

\* lines 861-875: each reader that is alive is joined for at most one
\* second, then both pipes are closed, whether or not the joins timed out
R_Join ==
    /\ At("run_code_file", "join")
    /\ Goto([Top EXCEPT !.pc = "result", !.closed = TRUE])
    /\ UNCHANGED <<parseVars, config, request, fs, ret, exc, spawned, aiQueries, mock>>

\* line 850: the return False of the except clause takes effect once the
\* finally clause is through; else lines 878-902: the buffers are joined
\* into full_stdout and full_stderr, then the branch on process.returncode
R_Result ==
    /\ At("run_code_file", "result")
    /\ IF Top.caught
       THEN Return(BoolResult(FALSE))
       ELSE IF Top.process.returncode = Some(0)
       THEN Return(BoolResult(TRUE))
       ELSE IF Top.process.returncode # None
       THEN Goto([Top EXCEPT !.pc = "debug_prompt", !.readers = NoReaders]) /\ UNCHANGED ret
       ELSE Return(BoolResult(FALSE))
    /\ UNCHANGED <<parseVars, config, request, fs, exc, spawned, aiQueries, mock>>

\* lines 892-897: "Attempt to debug with AI? [y/N]"
R_DebugPrompt ==
    /\ At("run_code_file", "debug_prompt")
    /\ \/ /\ \E line \in Lines :
               IF SaysYes(line)
               THEN Call(DebugCodeFrame(Top.filename, Top.code_content), [Top EXCEPT !.pc = "debug_ret", !.process = NoProcess]) /\ UNCHANGED ret
               ELSE Return(BoolResult(FALSE))
          /\ UNCHANGED exc
       \/ RaiseEOF
    /\ UNCHANGED <<parseVars, config, request, fs, spawned, aiQueries, mock>>

\* line 894: return self._debug_code_error(...)
R_DebugRet ==
    /\ At("run_code_file", "debug_ret")
    /\ Return(ret)
    /\ UNCHANGED <<parseVars, config, request, fs, exc, spawned, aiQueries, mock>>

(***************************************************************************)
(* BashAI._create_file (560-573) and BashAI._apply_file_edit (575-599)     *)
(***************************************************************************)

\* os.linesep: LF on POSIX, CR LF on Windows
LineSeps == { <<"\n">>, <<"\r","\n">> }

\* what a file opened in text mode for writing stores for a str: every
\* '\n' is replaced by os.linesep (open(..., 'w'), newline=None)
RECURSIVE TextWrite(_, _)
TextWrite(content, linesep) ==
    IF content = <<>> THEN <<>>
    ELSE (IF Head(content) = "\n" THEN linesep ELSE <<Head(content)>>) \o TextWrite(Tail(content), linesep)

\* what a file opened in text mode for reading returns for stored data:
\* universal newlines, '\r\n' and a lone '\r' both come back as '\n'
\* (open(..., 'r'), newline=None)
TextRead(data) ==
    Bind({i \in 1..Len(data) : ~(data[i] = "\r" /\ i < Len(data) /\ data[i + 1] = "\n")}, LAMBDA kept :
        [k \in 1..Cardinality(kept) |->
            Bind(CHOOSE i \in kept : Cardinality({j \in kept : j <= i}) = k, LAMBDA i :
                IF data[i] = "\r" THEN "\n" ELSE data[i])])

\* open(filename, 'w', encoding='utf-8').write(content): the files afterwards
Written(filename, content) ==
    [n \in DOMAIN fs \cup {filename} |-> IF n = filename THEN TextWrite(content, config.linesep) ELSE fs[n]]

\* _create_file: the write succeeds and True is returned, or it raises
\* and False is returned with the files as they were
create_file(filename, content, ok) == fs' = IF ok THEN Written(filename, content) ELSE fs

\* lines 587-588, 597-599: "Overwrite '...' with this new content? [Y/n]";
\* `answer` holds what the user typed while the write is pending
AE_Confirm ==
    /\ At("apply_file_edit", "confirm")
    /\ \/ /\ \E line \in Lines :
               IF NotNo(line)
               THEN Goto([Top EXCEPT !.pc = "write", !.answer = Some(line)]) /\ UNCHANGED ret
               ELSE Return(BoolResult(FALSE))
          /\ UNCHANGED exc
       \/ RaiseEOF
    /\ UNCHANGED <<parseVars, config, request, fs, spawned, aiQueries, mock>>

\* lines 589-596: the file is overwritten and True is returned, or the
\* write raises and False is returned
AE_Write ==
    /\ At("apply_file_edit", "write")
    /\ \E ok \in BOOLEAN : create_file(Top.filename, Top.new_content, ok) /\ Return(BoolResult(ok))
    /\ UNCHANGED <<parseVars, config, request, exc, spawned, aiQueries, mock>>

(***************************************************************************)
(* BashAI._debug_code_error (bashai.py 904-1047)                           *)
(***************************************************************************)

\* what _query_ai can come back with in a code debug session
DebugCodeShapes == { FixShape,
                     [NoShape EXCEPT !.single = "ok"],
                     [NoShape EXCEPT !.single = "ok", !.exec = "ok"],
                     [NoShape EXCEPT !.deps = "ok", !.single = "ok"],
                     [NoShape EXCEPT !.edit = "ok"],
                     [NoShape EXCEPT !.edit = "ok", !.exec = "ok"],
                     [NoShape EXCEPT !.prose = "hi"] }

\* the arguments of a re-run: _run_code_file(filename, code, dependencies_cmd)
Rerun(filename, code, dependencies_cmd) ==
    Some([filename |-> filename, code |-> code, dependencies_cmd |-> dependencies_cmd])

\* a next attempt that is not counted
DK_NextAttempt_Uncounted(f) ==
    Goto([f EXCEPT !.pc = "query", !.parsed = None]) /\ ret' = NoRet

\* the end of the loop body: the next attempt, or the return of line 1047
DK_NextAttempt(f) ==
    IF f.attempt < DEBUG_ATTEMPTS
    THEN Goto([f EXCEPT !.pc = "query", !.attempt = f.attempt + 1, !.parsed = None]) /\ ret' = NoRet
    ELSE Return(BoolResult(FALSE))

\* a comparison that never finds a mismatch
NameMismatch_Never(fixed_filename, filename) == FALSE

\* fixed_filename.lower() != filename.lower() (lines 970, 1008)
NameMismatch(fixed_filename, filename) == Lower(fixed_filename) # Lower(filename)

\* a chain that looks at the file fields before the command, as the
\* dispatcher of the interactive loop does
DK_Dispatch_FilesFirst(p) ==
    IF Len(p.new_files) = 1
    THEN IF NameMismatch(p.new_files[1].filename, Top.filename)
         THEN Return(BoolResult(FALSE))
         ELSE Goto([Top EXCEPT !.pc = "confirm_save", !.parsed = Some(p)]) /\ UNCHANGED ret
    ELSE IF p.edited_file # None
    THEN IF NameMismatch(p.edited_file[1].filename, Top.filename)
         THEN Return(BoolResult(FALSE))
         ELSE /\ Call(ApplyEditFrame(p.edited_file[1].filename, p.edited_file[1].code),
                      [Top EXCEPT !.pc = "edit_ret", !.parsed = Some(p)])
              /\ UNCHANGED ret
    ELSE IF Truthy(p.command)
    THEN Goto([Top EXCEPT !.pc = "confirm_fix", !.parsed = Some(p)]) /\ UNCHANGED ret
    ELSE IF Top.attempt < DEBUG_ATTEMPTS
    THEN Goto([Top EXCEPT !.pc = "retry", !.parsed = None]) /\ UNCHANGED ret
    ELSE Return(BoolResult(FALSE))

\* lines 936, 963-976, 1003-1016, 1033-1045: the branch on the fields of the
\* parsed response, up to the next prompt or call
DK_Dispatch(p) ==
    IF Truthy(p.command)
    THEN Goto([Top EXCEPT !.pc = "confirm_fix", !.parsed = Some(p)]) /\ UNCHANGED ret
    ELSE IF Len(p.new_files) = 1
    THEN IF NameMismatch(p.new_files[1].filename, Top.filename)
         THEN Return(BoolResult(FALSE))
         ELSE Goto([Top EXCEPT !.pc = "confirm_save", !.parsed = Some(p)]) /\ UNCHANGED ret
    ELSE IF p.edited_file # None
    THEN IF NameMismatch(p.edited_file[1].filename, Top.filename)
         THEN Return(BoolResult(FALSE))
         ELSE /\ Call(ApplyEditFrame(p.edited_file[1].filename, p.edited_file[1].code),
                      [Top EXCEPT !.pc = "edit_ret", !.parsed = Some(p)])
              /\ UNCHANGED ret
    ELSE IF Top.attempt < DEBUG_ATTEMPTS
    THEN Goto([Top EXCEPT !.pc = "retry", !.parsed = None]) /\ UNCHANGED ret
    ELSE Return(BoolResult(FALSE))

\* lines 913-934: one _query_ai round trip and the parse of the response
DK_Query ==
    /\ At("debug_code_error", "query")
    /\ aiQueries' = aiQueries + 1
    /\ \E r \in Replies(DebugCodeShapes) :
         IF ~r.success
         THEN Goto([Top EXCEPT !.pc = "query_failed", !.answer = "none"]) /\ UNCHANGED ret
         ELSE /\ Goto([Top EXCEPT !.pc = "dispatch", !.parsed = Some(parse_ai_response(Build(r.shape))),
                                  !.answer = "none"])
              /\ UNCHANGED ret
    /\ UNCHANGED <<parseVars, config, request, fs, exc, spawned, mock>>

\* lines 929-931: the query failed; the error is printed and `continue`
\* goes on to the next attempt
DK_QueryFailed ==
    /\ At("debug_code_error", "query_failed")
    /\ DK_NextAttempt(Top)
    /\ UNCHANGED <<parseVars, config, request, fs, exc, spawned, aiQueries, mock>>

\* lines 936-1045: the if/elif chain over parsed_debug_response
DK_Branch ==
    /\ At("debug_code_error", "dispatch")
    /\ DK_Dispatch(Top.parsed[1])
    /\ UNCHANGED <<parseVars, config, request, fs, exc, spawned, aiQueries, mock>>

\* lines 939-940, 959-961: "Execute this fix? [y/N]"
DK_ConfirmFix ==
    /\ At("debug_code_error", "confirm_fix")
    /\ \/ /\ \E line \in Lines :
               IF SaysYes(line)
               THEN Call(AskedFrame(Top.parsed[1].command[1], line, FALSE), [Top EXCEPT !.pc = "fix_ret", !.parsed = None]) /\ UNCHANGED ret
               ELSE Return(BoolResult(FALSE))
          /\ UNCHANGED exc
       \/ RaiseEOF
    /\ UNCHANGED <<parseVars, config, request, fs, spawned, aiQueries, mock>>

\* lines 941-945, 957-958: the fix command came back
DK_FixRet ==
    /\ At("debug_code_error", "fix_ret")
    /\ IF ret.success
       THEN /\ Goto([Top EXCEPT !.pc = "rerun_prompt", !.rerun = Rerun(Top.filename, Top.code_content, None)])
            /\ ret' = NoRet
       ELSE DK_NextAttempt(Top)
    /\ UNCHANGED <<parseVars, config, request, fs, exc, spawned, aiQueries, mock>>

\* lines 983-985, 997-1001: "Save corrected code to file? [y/N]" and the
\* _create_file call
DK_ConfirmSave ==
    /\ At("debug_code_error", "confirm_save")
    /\ \/ /\ \E line \in Lines :
               IF SaysYes(line)
               THEN \E ok \in BOOLEAN, fixed \in {Top.parsed[1].new_files[1]} :
                      /\ create_file(fixed.filename, fixed.code, ok)
                      /\ IF ok
                         THEN /\ Goto([Top EXCEPT !.pc = "rerun_prompt", !.parsed = None,
                                                  !.rerun = Rerun(fixed.filename, fixed.code, Top.parsed[1].dependencies),
                                                  !.answer = Consent(line, FALSE)])
                              /\ UNCHANGED ret
                         ELSE DK_NextAttempt([Top EXCEPT !.answer = Consent(line, FALSE)])
               ELSE Return(BoolResult(FALSE)) /\ UNCHANGED fs
          /\ UNCHANGED exc
       \/ RaiseEOF /\ UNCHANGED fs
    /\ UNCHANGED <<parseVars, config, request, spawned, aiQueries, mock>>

\* lines 1016-1018, 1029-1031: _apply_file_edit came back
DK_EditRet ==
    /\ At("debug_code_error", "edit_ret")
    /\ IF ret.success
       THEN /\ Goto([Top EXCEPT !.pc = "rerun_prompt", !.parsed = None,
                                !.rerun = Rerun(Top.parsed[1].edited_file[1].filename,
                                                Top.parsed[1].edited_file[1].code,
                                                Top.parsed[1].dependencies)])
            /\ ret' = NoRet
       ELSE Return(BoolResult(FALSE))
    /\ UNCHANGED <<parseVars, config, request, fs, exc, spawned, aiQueries, mock>>

\* lines 946-956, 986-996, 1018-1028: "Attempt to re-run ...? [y/N]"
DK_RerunPrompt ==
    /\ At("debug_code_error", "rerun_prompt")
    /\ \/ /\ \E line \in Lines :
               IF SaysYes(line)
               THEN /\ Call(RunCodeFrame(Top.rerun[1].filename, Top.rerun[1].code, Top.rerun[1].dependencies_cmd),
                            [Top EXCEPT !.pc = "rerun_ret", !.rerun = None, !.ran = Some(Top.rerun[1].filename),
                                        !.answer = Consent(line, FALSE)])
                    /\ UNCHANGED ret
               ELSE Return(BoolResult(FALSE))
          /\ UNCHANGED exc
       \/ RaiseEOF
    /\ UNCHANGED <<parseVars, config, request, fs, spawned, aiQueries, mock>>

\* lines 950-953, 990-993, 1022-1025: the re-run came back
DK_RerunRet ==
    /\ At("debug_code_error", "rerun_ret")
    /\ IF ret.success THEN Return(BoolResult(TRUE)) ELSE DK_NextAttempt([Top EXCEPT !.ran = None, !.answer = "none"])
    /\ UNCHANGED <<parseVars, config, request, fs, exc, spawned, aiQueries, mock>>

\* lines 1037-1041: "Attempt another AI debugging pass? [y/N]"
DK_Retry ==
    /\ At("debug_code_error", "retry")
    /\ \/ /\ \E line \in Lines :
               IF SaysYes(line)
               THEN DK_NextAttempt([Top EXCEPT !.answer = Consent(line, FALSE)])
               ELSE Return(BoolResult(FALSE))
          /\ UNCHANGED exc
       \/ RaiseEOF
    /\ UNCHANGED <<parseVars, config, request, fs, spawned, aiQueries, mock>>

NextCode == \/ NextCmd
            \/ R_Start \/ R_DepsPrompt \/ R_DepsRet \/ R_ProceedPrompt \/ R_Popen
            \/ R_Poll \/ R_Input \/ R_Sigint \/ P_Exit \/ Rd_Eof \/ R_Wait \/ R_Join \/ R_Result \/ R_DebugPrompt \/ R_DebugRet
            \/ AE_Confirm \/ AE_Write
            \/ DK_Query \/ DK_QueryFailed \/ DK_Branch \/ DK_ConfirmFix \/ DK_FixRet \/ DK_ConfirmSave \/ DK_EditRet
            \/ DK_RerunPrompt \/ DK_RerunRet \/ DK_Retry

(***************************************************************************)
(* The runner and the code debug loop on their own                         *)
(***************************************************************************)

\* the file a behaviour runs or debugs
CodeFiles == { FileName(1), FileName(2), FileName(3) }

\* a file whose name differs from FileName(1) by letter case only; on a
\* file system that tells letter case apart it is another file
UpperName == <<"A",".","p","y">>

\* the file a debug session is started for
DebugFiles == CodeFiles \cup {UpperName}

CodeContent == <<"c">>

\* self._run_code_file(filename, code) is called for a generated file,
\* self._debug_code_error(filename, code, stderr) for one that has failed,
\* or self._execute_command(cmd) for a command
InitCode ==
    /\ IdleParse
    /\ config = [safe_mode |-> TRUE, auto_execute |-> FALSE, linesep |-> <<"\n">>]
    /\ \/ \E filename \in CodeFiles :
            /\ request = [fn |-> "run_code_file", filename |-> filename]
            /\ stack = <<RunCodeFrame(filename, CodeContent, None)>>
       \/ \E filename \in DebugFiles :
            /\ request = [fn |-> "debug_code_error", filename |-> filename]
            /\ stack = <<DebugCodeFrame(filename, CodeContent)>>
       \/ /\ request = [fn |-> "execute_command", cmd |-> ExecCmd]
          /\ stack = <<ExecuteFrame(ExecCmd, TRUE)>>
    /\ ret = NoRet
    /\ exc = "none"
    /\ spawned = <<>>
    /\ aiQueries = 0
    /\ fs = <<>>
    /\ mock = FALSE

SpecCode == InitCode /\ [][NextCode]_vars

\* the steps of _run_code_file that the main thread takes by itself: they
\* wait for no line from the user and for no event of the process
RunnerSteps == R_Start \/ R_DepsRet \/ R_Popen \/ R_Poll \/ R_Wait \/ R_Join \/ R_Result \/ R_DebugRet

\* the runner with a main thread that keeps running: a step of RunnerSteps
\* that stays possible is taken.  Nothing is assumed of the user (a line at
\* a prompt may never come) or of the process (it may never exit).
SpecCodeLive == SpecCode /\ WF_vars(RunnerSteps)

(***************************************************************************)
(* Properties of the runner and the code debug loop                        *)
(***************************************************************************)

\* the main thread is inside the control loop of lines 820-841
InControlLoop == stack # <<>> /\ exc = "none" /\ Top.fn = "run_code_file" /\ Top.pc \in {"loop", "input"}

\* C28: the control loop does not block indefinitely: once the spawned
\* process has exited by itself, _run_code_file eventually leaves the
\* control loop, whether or not the user types anything more at the halt
\* prompt.
C28_LoopEndsAfterNaturalExit ==
    (InControlLoop /\ Top.process.state = "exited" /\ ~Top.process.terminated) ~> ~InControlLoop


\* C2: one debug session started for a failed generated file
\* (_debug_code_error and everything it calls) issues at most maxAttempts
\* AI queries.
C2_SessionWithinBudget ==
    request.fn = "debug_code_error" => aiQueries <= DEBUG_ATTEMPTS

\* C3: a call of _run_code_file in which the user typed 'stop' at the halt
\* prompt never returns True.
C3_StopNeverSucceeds ==
    [][(/\ stack # <<>>
        /\ exc = "none"
        /\ Top.fn = "run_code_file"
        /\ Top.stop_typed
        /\ stack' = SubSeq(stack, 1, Len(stack) - 1)) => ~ret'.success]_vars

\* the user asked this call of _run_code_file to halt the process: 'stop'
\* was typed, or terminate() signalled the process after end of input
HaltRequested(f) == f.fn = "run_code_file" /\ (f.stop_typed \/ f.process.terminated)

\* the call printed "Code execution failed" (line 888): it is at the debug
\* prompt of line 892 or inside the debug loop it started from there
ReportedFailed(f) == f.fn = "run_code_file" /\ f.pc \in {"debug_prompt", "debug_ret"}

\* C21: a user-requested halt of a streaming run is not reported as a
\* failure: after 'stop' or end of input at the halt prompt, _run_code_file
\* never prints "Code execution failed" and never offers or starts the AI
\* debug loop.
C21_HaltNotAFailure ==
    \A i \in DOMAIN stack : HaltRequested(stack[i]) => ~ReportedFailed(stack[i])

\* C29: the main thread closes a pipe and reads its line buffer only after
\* the reader thread of that pipe has finished: when the finally clause is
\* through (pipes closed at lines 868-871, buffers joined next at lines
\* 879-880), no reader is still in its read loop.
C29_ReadersDoneBeforeBuffersRead ==
    \A i \in DOMAIN stack :
        (stack[i].fn = "run_code_file" /\ stack[i].pc = "result")
            => \A s \in Pipes : stack[i].readers[s] # "reading"

\* the step kills the process of the i-th frame: kill() of line 859
Kills(i) ==
    /\ i \in DOMAIN stack /\ i \in DOMAIN stack'
    /\ stack[i].fn = "run_code_file" /\ stack'[i].fn = "run_code_file"
    /\ stack[i].process.state # "killed"
    /\ stack'[i].process.state = "killed"

\* C30: in the streaming runner a process is force-killed only after
\* graceful termination has been requested for it and the grace timeout
\* has expired: every step that kills a process is the wait of the finally
\* clause finding the process still running, and that process was sent
\* terminate before, whichever way the control loop was left (natural exit,
\* 'stop', end of input, interrupt or exception).
C30_KillOnlyAfterTerminateTimedOut ==
    [][\A i \in DOMAIN stack :
          Kills(i) => /\ stack[i].process.terminated
                      /\ stack[i].process.state = "running"
                      /\ stack[i].pc = "finally"]_vars

\* a process that ignored the terminate it was sent has been killed
C30_Witness ==
    \E i \in DOMAIN stack :
        /\ stack[i].fn = "run_code_file"
        /\ stack[i].process.state = "killed"
        /\ stack[i].process.terminated

\* the step returns from a call of _run_code_file that spawned a process
ReturnsAfterSpawn ==
    /\ stack # <<>>
    /\ Top.fn = "run_code_file"
    /\ Top.process.state # "none"
    /\ stack' = SubSeq(stack, 1, Len(stack) - 1)

\* C31: on every exit path of _run_code_file after a process was spawned
\* (natural exit, 'stop', end of input, exception, grace timeout followed by
\* kill), both pipes are closed and the process has been waited for, so
\* that its exit status is known, before the function returns.
C31_ReleasedBeforeReturn ==
    [][ReturnsAfterSpawn => (Top.closed /\ Top.process.returncode # None)]_vars

\* C32: an interrupt signal (Ctrl+C, SIGINT) delivered while the halt
\* prompt of the streaming runner is waiting requests termination of the
\* running process, with the SIGINT handler the program installs at
\* start-up: once the signal has arrived, the main thread has left the
\* prompt and has called terminate().
C32_SigintRequestsTermination ==
    \A i \in DOMAIN stack :
        (stack[i].fn = "run_code_file" /\ stack[i].interrupted)
            => /\ stack[i].pc = "finally"
               /\ (stack[i].process.terminated \/ stack[i].process.state # "running")

\* the step returns True from a call of the function fn
ReturnsTrue(fn) == TopReturns /\ Top.fn = fn /\ ret'.success

\* _run_code_file returns True only when its process exited with code 0 or
\* the debug loop it called returned True
RunSucceedsOnlyOnExitZero ==
    [][ReturnsTrue("run_code_file")
         => \/ Top.pc = "result" /\ Top.process.returncode = Some(0)
            \/ Top.pc = "debug_ret" /\ ret.success]_vars

\* C34: _debug_code_error returns True only if an execution of the
\* debugged file, started after the fix was applied, exited with code 0:
\* True is returned only when the re-run has just returned True, that
\* re-run executed the file the loop was called for, and _run_code_file
\* returns True only on exit code 0.  It never returns True after a fix
\* command succeeded or a corrected file was saved without a successful
\* re-run.
C34_FixedOnlyAfterSuccessfulRerun ==
    /\ [][ReturnsTrue("debug_code_error")
            => /\ Top.pc = "rerun_ret" /\ ret.success
               /\ Top.ran = Some(Top.filename)]_vars
    /\ RunSucceedsOnlyOnExitZero

\* the same for a re-run of any file
FixedOnlyAfterSomeSuccessfulRun ==
    /\ [][ReturnsTrue("debug_code_error") => (Top.pc = "rerun_ret" /\ ret.success)]_vars
    /\ RunSucceedsOnlyOnExitZero

DebugLoops == {"debug_code_error", "debug_command_error"}

\* C35: in both debug loops, once the user declines a confirmation (execute
\* the fix, save the corrected code, overwrite the edited file, re-run, or
\* another debugging pass), the loop returns failure at once: a loop that
\* goes on after a question was answered with consent, the command a loop
\* executes was accepted, and the edited file a code debug loop is about to
\* overwrite was accepted.
C35_DeclineEndsLoop ==
    \A i \in DOMAIN stack :
        /\ stack[i].fn \in DebugLoops => stack[i].answer # "refused"
        /\ (i > 1 /\ stack[i].fn = "execute_command" /\ stack[i].pc = "check" /\ stack[i - 1].fn \in DebugLoops)
              => stack[i].consent = "given"
        /\ (i > 1 /\ stack[i].fn = "apply_file_edit" /\ stack[i].pc = "write" /\ stack[i - 1].fn = "debug_code_error")
              => Consent(stack[i].answer[1], TRUE) = "given"

\* the same for the questions the debug loops ask themselves, without the
\* overwrite question of _apply_file_edit
DeclineOfLoopQuestionEndsLoop ==
    \A i \in DOMAIN stack :
        /\ stack[i].fn \in DebugLoops => stack[i].answer # "refused"
        /\ (i > 1 /\ stack[i].fn = "execute_command" /\ stack[i].pc = "check" /\ stack[i - 1].fn \in DebugLoops)
              => stack[i].consent = "given"

\* C18: in both debug loops, when the AI suggests a fix command, the user
\* accepts it and it succeeds, the user is offered a re-run of the original
\* failing action, and the loop reports success only if that re-run
\* succeeded.
C18_RerunAfterFix ==
    [][/\ ((At("debug_command_error", "exec_ret") \/ At("debug_code_error", "fix_ret")) /\ ret.success)
            => /\ Len(stack') = Len(stack)
               /\ stack'[Len(stack)].pc = "rerun_prompt"
       /\ (/\ stack # <<>> /\ exc = "none"
           /\ Top.fn \in {"debug_command_error", "debug_code_error"}
           /\ TopReturns /\ ret'.success)
            => Top.pc = "rerun_ret" /\ ret.success]_vars

\* the corrected file of a parsed debug response: its single new file or
\* its edited file, if it has one
CorrectedFiles(p) ==
    (IF Len(p.new_files) = 1 THEN {p.new_files[1].filename} ELSE {})
    \cup (IF p.edited_file # None THEN {p.edited_file[1].filename} ELSE {})

\* _debug_code_error has parsed a response whose corrected file is named
\* differently from the file being debugged, and is about to act on it
MismatchReceived ==
    /\ At("debug_code_error", "dispatch")
    /\ \E n \in CorrectedFiles(Top.parsed[1]) : n # Top.filename

\* the loop ends at once with failure and nothing else happens
EndsWithFailureOnly ==
    /\ TopReturns
    /\ ~ret'.success
    /\ UNCHANGED <<fs, spawned, aiQueries>>

\* C19 as stated: when the corrected file of the AI response has a filename
\* that does not match the file being debugged, the loop ends at once with
\* failure: no file is written, no process is run, no further AI query.
C19_MismatchEndsLoop == [][MismatchReceived => EndsWithFailureOnly]_vars

\* C19 amended: the same, for a response that holds no command (a command
\* is handled first, whatever file comes with it) and a name that differs
\* from the debugged one by more than letter case.
C19_MismatchWithoutCommandEndsLoop ==
    [][(/\ MismatchReceived
        /\ ~Truthy(Top.parsed[1].command)
        /\ \E n \in CorrectedFiles(Top.parsed[1]) : Lower(n) # Lower(Top.filename))
          => EndsWithFailureOnly]_vars

\* a debug session for b.js has received an edit of a.py and no command
C19_Witness ==
    /\ MismatchReceived
    /\ Top.filename = FileName(2)
    /\ Top.parsed[1].command = None
    /\ Top.parsed[1].edited_file = Some([filename |-> EditName, code |-> EditCode])

\* a parsed debug response without an actionable fix for the code loop
NoFix(p) == ~Truthy(p.command) /\ Len(p.new_files) # 1 /\ p.edited_file = None

\* the frame that was innermost, as it is after the step
TopAfter == stack'[Len(stack)]

\* the innermost call stays where it is in the stack and moves to pc
StaysAt(pc) == Len(stack') = Len(stack) /\ TopAfter.pc = pc

\* the user is asked "Attempt another AI debugging pass?"; nothing else
\* happens
AskedToRetry == StaysAt("retry") /\ UNCHANGED <<fs, spawned, aiQueries>>

\* the next attempt begins: the query of attempt + 1 is next
NextAttemptBegins ==
    /\ StaysAt("query")
    /\ TopAfter.attempt = Top.attempt + 1
    /\ UNCHANGED <<fs, spawned, aiQueries>>

WordEnd(s, i) == LET ws == {j \in i..Len(s) : s[j] \in Whitespace} IN IF ws = {} THEN Len(s) ELSE Min(ws) - 1

\* user_input.split(maxsplit=2): at most two words and the rest of the
\* line, which keeps the whitespace at its end
SplitMax2(s) ==
    LET a1 == LStripIdx(s, 1)
        e1 == WordEnd(s, a1)
        a2 == LStripIdx(s, e1 + 1)
        e2 == WordEnd(s, a2)
        a3 == LStripIdx(s, e2 + 1)
    IN  IF a1 > Len(s) THEN <<>>
        ELSE IF a2 > Len(s) THEN <<SubSeq(s, a1, e1)>>
        ELSE IF a3 > Len(s) THEN <<SubSeq(s, a1, e1), SubSeq(s, a2, e2)>>
        ELSE <<SubSeq(s, a1, e1), SubSeq(s, a2, e2), SubSeq(s, a3, Len(s))>>

EditWord == <<"e","d","i","t">>

\* 'edit <filename> <instruction>' lines: a file that exists, a name that
\* differs from it by letter case, a file that does not exist, and a line
\* without an instruction
EditInputs == { EditWord \o <<" ">> \o FileName(1) \o <<" ","x">>,
                EditWord \o <<" ">> \o UpperName \o <<" "," ","x"," ","y">>,
                EditWord \o <<" ">> \o FileName(3) \o <<" ","x">>,
                EditWord \o <<" ">> \o FileName(1) }

\* what _query_ai can come back with for an edit request
EditShapes == { [NoShape EXCEPT !.edit = "ok"],
                [NoShape EXCEPT !.edit = "ok", !.exec = "ok"],
                [NoShape EXCEPT !.single = "ok"],
                [NoShape EXCEPT !.prose = "hi"],
                FixShape }

\* the files on disk when the edit command is given
EditFs == [n \in {FileName(1), UpperName} |-> CodeContent]

HandleEditFrame(user_input) ==
    [fn |-> "handle_edit", pc |-> "start", user_input |-> user_input, filename |-> <<>>, parsed |-> None]

\* a comparison of names that ignores letter case
SameName_IgnoringCase(edited, filename) == Lower(edited) = Lower(filename)

\* parsed_response['edited_file']['filename'] == filename (line 1147)
SameName(edited, filename) == edited = filename

\* _read_file_content (lines 389-392): the file has to exist
FileFound(filename) == filename \in DOMAIN fs

\* lines 1115-1138: the split of the line, the read of the file and the
\* _query_ai round trip
H_Start ==
    /\ At("handle_edit", "start")
    /\ \E parts \in {SplitMax2(Top.user_input)} :
         IF Len(parts) < 3 \/ ~FileFound(parts[2])
         THEN Return(NoRet) /\ UNCHANGED aiQueries
         ELSE /\ aiQueries' = aiQueries + 1
              /\ \E r \in Replies(EditShapes) :
                   IF ~r.success
                   THEN Goto([Top EXCEPT !.pc = "query_failed", !.filename = parts[2]])
                   ELSE Goto([Top EXCEPT !.pc = "dispatch", !.filename = parts[2],
                                         !.parsed = Some(parse_ai_response(Build(r.shape)))])
              /\ UNCHANGED ret
    /\ UNCHANGED <<parseVars, config, request, fs, exc, spawned, mock>>

\* lines 1140-1142: the query failed; the error is printed
H_QueryFailed ==
    /\ At("handle_edit", "query_failed")
    /\ Return(NoRet)
    /\ UNCHANGED <<parseVars, config, request, fs, exc, spawned, aiQueries, mock>>

\* lines 1145-1151: the edit is applied if the response holds an edit of
\* the requested file, else the response is printed
H_Dispatch ==
    /\ At("handle_edit", "dispatch")
    /\ \E p \in {Top.parsed[1]} :
         IF p.edited_file # None /\ SameName(p.edited_file[1].filename, Top.filename)
         THEN Call(ApplyEditFrame(p.edited_file[1].filename, p.edited_file[1].code), [Top EXCEPT !.pc = "edit_ret"])
              /\ UNCHANGED ret
         ELSE Return(NoRet)
    /\ UNCHANGED <<parseVars, config, request, fs, exc, spawned, aiQueries, mock>>

\* line 1148: _apply_file_edit came back; its result is not used
H_EditRet ==
    /\ At("handle_edit", "edit_ret")
    /\ Return(NoRet)
    /\ UNCHANGED <<parseVars, config, request, fs, exc, spawned, aiQueries, mock>>

NextEdit == H_Start \/ H_QueryFailed \/ H_Dispatch \/ H_EditRet

\* self._handle_edit(user_input) is called with files on disk
InitEdit ==
    /\ IdleParse
    /\ config = [safe_mode |-> TRUE, auto_execute |-> FALSE, linesep |-> <<"\n">>]
    /\ \E u \in EditInputs :
         /\ request = [fn |-> "handle_edit", user_input |-> u]
         /\ stack = <<HandleEditFrame(u)>>
    /\ ret = NoRet
    /\ exc = "none"
    /\ spawned = <<>>
    /\ aiQueries = 0
    /\ fs = EditFs
    /\ mock = FALSE

(***************************************************************************)
(* BashAI._interactive_mode (bashai.py 1154-1334): one iteration of the    *)
(* while loop, from the prompt to the `continue`, `break` or end of body.  *)
(***************************************************************************)

\* lines typed at the main prompt: nothing, a built-in, a request for the AI
UserInputs == { <<>>, <<"e","x","i","t">>, <<"Q","u","i","t">>, <<"h","e","l","p">>,
                <<"c","d"," ","x">>, <<" ","m","k"," ">>,
                <<"E","d","i","t"," ">> \o FileName(1) \o <<" ","x">> }

StartsWith(s, p) == IsAt(s, p, 1)

\* lines 1184-1185: the input is 'exit' or 'quit' in any letter case
IsExit(u) == Lower(u) \in { <<"e","x","i","t">>, <<"q","u","i","t">> }

\* lines 1188-1229: the built-ins that are handled without the AI
IsBuiltin(u) ==
    \/ Lower(u) \in { <<"h","e","l","p">>, <<"c","l","e","a","r">>, <<"c","o","n","f","i","g">>,
                      <<"l","o","g","i","n">>, <<"l","i","s","t">> }
    \/ StartsWith(Lower(u), <<"v","i","e","w"," ">>)
    \/ StartsWith(Lower(u), <<"o","p","e","n"," ">>)
    \/ StartsWith(u, <<"c","d"," ">>)

\* what _query_ai can come back with for a request of the user
TurnShapes == { FixShape, NoShape,
                [NoShape EXCEPT !.deps = "ok", !.exec = "ok"],
                [NoShape EXCEPT !.exec = "empty", !.prose = "hi"],
                [NoShape EXCEPT !.exec = "empty"],
                [NoShape EXCEPT !.prose = "hi"],
                [NoShape EXCEPT !.single = "ok", !.exec = "ok"],
                [NoShape EXCEPT !.single = "lines"],
                [NoShape EXCEPT !.single = "crlf"],
                [NoShape EXCEPT !.deps = "ok", !.single = "ok"],
                [NoShape EXCEPT !.edit = "ok", !.exec = "ok"],
                [NoShape EXCEPT !.files = "block", !.nfiles = 0],
                [NoShape EXCEPT !.deps = "ok", !.files = "block", !.nfiles = MaxFiles, !.exec = "ok"] }

\* `shown` is what the last branch of the dispatcher's if/elif chain has
\* printed for the response; `consent` records, while the run question for
\* a file is open, what the user answered to the save question before it;
\* `blank` tells that ai_response_raw was empty after trimming
TurnFrame == [fn |-> "interactive_mode", pc |-> "prompt", parsed |-> None, file |-> 0, shown |-> "nothing", consent |-> "none",
              blank |-> FALSE]

\* confirm.lower() != 'n' (lines 1277, 1315: the answer is not stripped)
NotNoRaw(line) == Lower(line) # <<"n">>

\* run_confirm.lower() == 'y' (line 1289: the answer is not stripped)
SaysYesRaw(line) == Lower(line) = <<"y">>

\* filename.lower().endswith(('.py', '.js', '.sh', '.ps1')) (line 1287)
IsScript(filename) ==
    \E e \in { <<".","p","y">>, <<".","j","s">>, <<".","s","h">>, <<".","p","s","1">> } :
        EndsWith(Lower(filename), e)

\* the iteration is over: `continue`, `break`, or the end of the loop body
EndTurn == Return(NoRet)

\* the for loop of line 1268 moves on: the next file, or the end of the step
T_NextFile(f) ==
    IF f.file < Len(f.parsed[1].new_files)
    THEN Goto([f EXCEPT !.pc = "file_save", !.file = f.file + 1]) /\ UNCHANGED ret
    ELSE EndTurn

\* lines 1170-1249: the prompt, the built-ins, the _query_ai round trip and
\* the parse of the response
T_Prompt ==
    /\ At("interactive_mode", "prompt")
    /\ \/ /\ \E u \in UserInputs :
               IF Strip(u) = <<>> \/ IsExit(Strip(u)) \/ IsBuiltin(Strip(u))
               THEN EndTurn /\ UNCHANGED aiQueries
               ELSE IF StartsWith(Lower(Strip(u)), EditWord \o <<" ">>)
               THEN Call(HandleEditFrame(Strip(u)), [Top EXCEPT !.pc = "edit_cmd_ret"]) /\ UNCHANGED <<ret, aiQueries>>
               ELSE /\ aiQueries' = aiQueries + 1
                    /\ \E r \in Replies(TurnShapes) :
                         IF ~r.success
                         THEN Goto([Top EXCEPT !.pc = "query_failed"]) /\ UNCHANGED ret
                         ELSE \E p \in {parse_ai_response(Build(r.shape))} :
                                /\ Goto([Top EXCEPT !.parsed = Some(p),
                                                    !.blank = (Strip(Build(r.shape)) = <<>>),
                                                    !.pc = IF Truthy(p.dependencies) THEN "deps_prompt" ELSE "primary"])
                                /\ UNCHANGED ret
          /\ UNCHANGED exc
       \/ RaiseEOF /\ UNCHANGED aiQueries
    /\ UNCHANGED <<parseVars, config, request, fs, spawned, mock>>

\* lines 1224-1226: _handle_edit came back; `continue`
T_EditCmdRet ==
    /\ At("interactive_mode", "edit_cmd_ret")
    /\ EndTurn
    /\ UNCHANGED <<parseVars, config, request, fs, exc, spawned, aiQueries, mock>>

\* lines 1240-1242: the query failed; the error is printed and `continue`
\* ends the iteration
T_QueryFailed ==
    /\ At("interactive_mode", "query_failed")
    /\ EndTurn
    /\ UNCHANGED <<parseVars, config, request, fs, exc, spawned, aiQueries, mock>>

\* lines 1250-1253, 1260-1261: "Install these dependencies? [Y/n]"
T_DepsPrompt ==
    /\ At("interactive_mode", "deps_prompt")
    /\ \/ /\ \E line \in Lines :
               IF NotNo(line)
               THEN Call(AskedFrame(Top.parsed[1].dependencies[1], line, TRUE), [Top EXCEPT !.pc = "deps_ret"])
               ELSE Goto([Top EXCEPT !.pc = "primary"])
          /\ UNCHANGED <<ret, exc>>
       \/ RaiseEOF
    /\ UNCHANGED <<parseVars, config, request, fs, spawned, aiQueries, mock>>

\* lines 1254-1259: the install came back; the steps go on either way
T_DepsRet ==
    /\ At("interactive_mode", "deps_ret")
    /\ Goto([Top EXCEPT !.pc = "primary"])
    /\ ret' = NoRet
    /\ UNCHANGED <<parseVars, config, request, fs, exc, spawned, aiQueries, mock>>

\* lines 1265-1266, 1299-1309, 1322-1323: the if/elif chain over new_files,
\* edited_file, command and explanation
T_Primary ==
    /\ At("interactive_mode", "primary")
    /\ \E p \in {Top.parsed[1]} :
         IF p.new_files # <<>>
         THEN Goto([Top EXCEPT !.pc = "file_save", !.file = 1])
         ELSE IF p.edited_file # None
         THEN Call(ApplyEditFrame(p.edited_file[1].filename, p.edited_file[1].code), [Top EXCEPT !.pc = "edit_ret"])
         ELSE IF Truthy(p.command)
         THEN IF config.auto_execute
              THEN Call([ExecuteFrame(p.command[1], TRUE) EXCEPT !.consent = "auto"], [Top EXCEPT !.pc = "cmd_ret"])
              ELSE Goto([Top EXCEPT !.pc = "cmd_confirm"])
         ELSE Goto([Top EXCEPT !.pc = "done", !.shown = IF Truthy(p.explanation) THEN "explanation" ELSE "nothing"])
    /\ UNCHANGED <<parseVars, config, request, fs, ret, exc, spawned, aiQueries, mock>>

\* the end of the loop body after the elif of lines 1322-1323: the
\* explanation was printed, or no branch of the chain was taken
T_Done ==
    /\ At("interactive_mode", "done")
    /\ stack' = SubSeq(stack, 1, Len(stack) - 1)
    /\ UNCHANGED <<parseVars, config, request, fs, ret, exc, spawned, aiQueries, mock>>

\* lines 1268-1281: the preview, "Save '...'? [Y/n]" and the _create_file call
T_FileSave ==
    /\ At("interactive_mode", "file_save")
    /\ \/ /\ \E line \in Lines, file_info \in {Top.parsed[1].new_files[Top.file]} :
               IF NotNoRaw(line)
               THEN \E ok \in BOOLEAN :
                      /\ create_file(file_info.filename, file_info.code, ok)
                      /\ IF ok /\ IsScript(file_info.filename)
                         THEN Goto([Top EXCEPT !.pc = "file_run", !.consent = Consent(line, TRUE)]) /\ UNCHANGED ret
                         ELSE T_NextFile(Top)
               ELSE T_NextFile(Top) /\ UNCHANGED fs
          /\ UNCHANGED exc
       \/ RaiseEOF /\ UNCHANGED fs
    /\ UNCHANGED <<parseVars, config, request, spawned, aiQueries, mock>>

\* lines 1286-1296: "Run '...'? [y/N]"
T_FileRun ==
    /\ At("interactive_mode", "file_run")
    /\ \/ /\ \E line \in Lines, file_info \in {Top.parsed[1].new_files[Top.file]} :
               IF SaysYesRaw(line)
               THEN /\ Call(RunCodeFrame(file_info.filename, file_info.code, None), [Top EXCEPT !.pc = "run_ret", !.consent = "none"])
                    /\ UNCHANGED ret
               ELSE T_NextFile([Top EXCEPT !.consent = "none"])
          /\ UNCHANGED exc
       \/ RaiseEOF
    /\ UNCHANGED <<parseVars, config, request, fs, spawned, aiQueries, mock>>

\* line 1292: _run_code_file came back; its result is not used
T_RunRet ==
    /\ At("interactive_mode", "run_ret")
    /\ IF Top.file < Len(Top.parsed[1].new_files)
       THEN Goto([Top EXCEPT !.pc = "file_save", !.file = Top.file + 1]) /\ ret' = NoRet
       ELSE EndTurn
    /\ UNCHANGED <<parseVars, config, request, fs, exc, spawned, aiQueries, mock>>

\* line 1303: _apply_file_edit came back; its result is not used
T_EditRet ==
    /\ At("interactive_mode", "edit_ret")
    /\ EndTurn
    /\ UNCHANGED <<parseVars, config, request, fs, exc, spawned, aiQueries, mock>>

\* lines 1314-1319: "Execute command? ... [Y/n]"
T_CmdConfirm ==
    /\ At("interactive_mode", "cmd_confirm")
    /\ \/ /\ \E line \in Lines :
               IF NotNoRaw(line)
               THEN Call(AskedFrame(Top.parsed[1].command[1], line, TRUE), [Top EXCEPT !.pc = "cmd_ret"]) /\ UNCHANGED ret
               ELSE EndTurn
          /\ UNCHANGED exc
       \/ RaiseEOF
    /\ UNCHANGED <<parseVars, config, request, fs, spawned, aiQueries, mock>>

\* lines 1310-1311, 1316-1317: _execute_command came back; the output is printed
T_CmdRet ==
    /\ At("interactive_mode", "cmd_ret")
    /\ EndTurn
    /\ UNCHANGED <<parseVars, config, request, fs, exc, spawned, aiQueries, mock>>

\* lines 1325-1334: the except clauses of the loop body
T_Except ==
    /\ stack # <<>> /\ exc # "none"
    /\ Top.fn = "interactive_mode"
    /\ EndTurn
    /\ exc' = "none"
    /\ UNCHANGED <<parseVars, config, request, fs, spawned, aiQueries, mock>>

(***************************************************************************)
(* main (bashai.py 1398-1470): single-command mode                         *)
(***************************************************************************)

\* `shown` is what lines 1441-1463 have printed for the response
MainFrame == [fn |-> "main", pc |-> "query", parsed |-> None,
              shown |-> [dependencies |-> FALSE, primary |-> "nothing"]]

\* the branch of the if/elif chain of lines 1444-1463 that prints
MainPrimary(p) ==
    IF p.new_files # <<>> THEN "files"
    ELSE IF p.edited_file # None THEN "edit"
    ELSE IF Truthy(p.command) THEN "command"
    ELSE IF Truthy(p.explanation) THEN "explanation"
    ELSE "nothing"

\* a single-command mode that executes the suggested command
M_Handle_Executes(p) ==
    IF Truthy(p.command)
    THEN Call(ExecuteFrame(p.command[1], TRUE), [Top EXCEPT !.pc = "printed"]) /\ UNCHANGED ret
    ELSE Return(NoRet)

\* lines 1440-1463: the suggestions are printed and main returns; nothing is
\* saved or executed
M_Handle(p) ==
    /\ Goto([Top EXCEPT !.pc = "printed",
                        !.shown = [dependencies |-> Truthy(p.dependencies), primary |-> MainPrimary(p)]])
    /\ UNCHANGED ret

\* lines 1428-1438: the _query_ai round trip and the parse of the response
M_Query ==
    /\ At("main", "query")
    /\ aiQueries' = aiQueries + 1
    /\ \E r \in Replies(TurnShapes) :
         IF ~r.success
         THEN Goto([Top EXCEPT !.pc = "query_failed"])
         ELSE Goto([Top EXCEPT !.pc = "handle", !.parsed = Some(parse_ai_response(Build(r.shape)))])
    /\ UNCHANGED <<parseVars, config, request, fs, ret, exc, spawned, mock>>

\* lines 1434-1436: the query failed; the error is printed and main returns
M_QueryFailed ==
    /\ At("main", "query_failed")
    /\ Return(NoRet)
    /\ UNCHANGED <<parseVars, config, request, fs, exc, spawned, aiQueries, mock>>

\* lines 1440-1463
M_Print ==
    /\ At("main", "handle")
    /\ M_Handle(Top.parsed[1])
    /\ UNCHANGED <<parseVars, config, request, fs, exc, spawned, aiQueries, mock>>

\* line 1466: main is through
M_Exit ==
    /\ At("main", "printed")
    /\ Return(NoRet)
    /\ UNCHANGED <<parseVars, config, request, fs, exc, spawned, aiQueries, mock>>

NextMain == M_Query \/ M_QueryFailed \/ M_Print \/ M_Exit

\* main was invoked with a positional query
InitMain ==
    /\ IdleParse
    /\ config \in [safe_mode : {TRUE}, auto_execute : BOOLEAN, linesep : {<<"\n">>}]
    /\ request = [fn |-> "main"]
    /\ stack = <<MainFrame>>
    /\ ret = NoRet
    /\ exc = "none"
    /\ spawned = <<>>
    /\ aiQueries = 0
    /\ fs \in {<<>>, EditFs}
    /\ mock = FALSE

Next == \/ NextCode
        \/ NextEdit \/ T_EditCmdRet
        \/ NextMain
        \/ T_Prompt \/ T_QueryFailed \/ T_DepsPrompt \/ T_DepsRet \/ T_Primary \/ T_FileSave \/ T_FileRun
        \/ T_RunRet \/ T_EditRet \/ T_CmdConfirm \/ T_CmdRet \/ T_Done \/ T_Except

\* the interactive loop waits at its prompt
InitTurn ==
    /\ IdleParse
    /\ config \in [safe_mode : {TRUE}, auto_execute : BOOLEAN, linesep : LineSeps]
    /\ request = [fn |-> "interactive_mode"]
    /\ stack = <<TurnFrame>>
    /\ ret = NoRet
    /\ exc = "none"
    /\ spawned = <<>>
    /\ aiQueries = 0
    /\ fs = <<>>
    /\ mock = FALSE

\* a behaviour starts at the interactive prompt, at a call of the runner,
\* a debug loop, the executor or the edit command, or in main with a
\* positional query
Init == InitTurn \/ InitCode \/ InitEdit \/ InitMain

Spec == Init /\ [][Next]_vars

(***************************************************************************)
(* Properties of the interactive dispatcher                                *)
(***************************************************************************)

\* the interactive loop is handling a parsed response p (possibly inside
\* calls it has made)
Handling(p) ==
    /\ request.fn = "interactive_mode"
    /\ stack # <<>>
    /\ stack[1].parsed = Some(p)

\* positions of the interactive loop inside the NewFiles / EditedFile step
FileStepPcs == {"file_save", "file_run", "run_ret", "edit_ret"}

\* C6: when one response yields both files (new_files or edited_file) and
\* a command, the iteration does not end with the file step: once the file
\* step has completed the command is dispatched.
C6_TrailingCommandDispatched ==
    [][(/\ stack # <<>>
        /\ exc = "none"
        /\ Top.fn = "interactive_mode"
        /\ Top.pc \in FileStepPcs
        /\ Truthy(Top.parsed[1].command)
        /\ exc' = "none") => stack' # <<>>]_vars

\* C8: a parse result with dependencies never has a command as its only
\* primary action, and the dispatcher never runs a dependency install for
\* a response whose only primary action is a command.
C8_NoDependenciesForCommand ==
    \A p \in (IF stack # <<>> /\ stack[1].fn = "interactive_mode" /\ stack[1].parsed # None
              THEN {stack[1].parsed[1]} ELSE {}) :
        Populated(p) = {"command"}
            => /\ p.dependencies = None
               /\ stack[1].pc # "deps_ret"

\* the dispatcher's dependency install is in progress or has just come back
InstallStep ==
    /\ request.fn = "interactive_mode"
    /\ stack # <<>>
    /\ stack[1].pc = "deps_ret"

\* the command of that install
InstallCmd == stack[1].parsed[1].dependencies[1]

InstallUndebugged ==
    /\ InstallStep
    /\ Len(stack) = 2 /\ exc = "none"
    /\ Top.fn = "execute_command" /\ Top.pc # "debug_ret"

C17_AskedBeforeFiles ==
    [][(/\ InstallStep /\ Len(stack) = 1 /\ exc = "none"
        /\ ~ret.success
        /\ stack[1].parsed[1].new_files # <<>>)
          => /\ stack' # <<>>
             /\ stack'[1].pc = "proceed_prompt"]_vars

\* C22: every file the dispatcher saved through _create_file reads back as
\* exactly the content of the parsed action: right after the save of
\* new_files[file] (the run prompt is next), reading the file in text mode,
\* as _read_file_content does, returns file_info['code'] with no whitespace
\* change.
C22_SavedFileReadsBack ==
    At("interactive_mode", "file_run")
        => \A file_info \in {Top.parsed[1].new_files[Top.file]} :
              /\ file_info.filename \in DOMAIN fs
              /\ TextRead(fs[file_info.filename]) = file_info.code

\* the response of this turn was an <execute></execute> pair with nothing
\* between the tags: the parsed command is the empty string and no file,
\* edit or install came with it
EmptyCommandOnly(p) ==
    /\ p.command = Some(<<>>)
    /\ p.new_files = <<>> /\ p.edited_file = None /\ ~Truthy(p.dependencies)

\* C23: for an <execute></execute> pair the parser yields the empty string
\* as command and the dispatcher treats it as a no-op with a warning: when
\* the turn is over nothing was executed and a warning was printed.
C23_EmptyCommandWarned ==
    (At("interactive_mode", "done") /\ EmptyCommandOnly(Top.parsed[1]))
        => spawned = <<>> /\ Top.shown = "warning"

\* C33: no AI response is dropped silently: for every response that is
\* not empty after trimming, the dispatcher shows the user at least one
\* output or prompt.  A turn that ends by falling through the if/elif
\* chain has printed the explanation, or has asked the install question
\* before; this includes a <files> block with no well-formed <file> entry.
C33_ResponseNeverDropped ==
    (At("interactive_mode", "done") /\ ~Top.blank)
        => Top.shown # "nothing" \/ Truthy(Top.parsed[1].dependencies)

\* C26: no AI-suggested command is executed without the user's confirmation
\* unless auto_execute is set: every call of _execute_command made in a turn
\* (primary command, dependency install, debug fix command) follows an
\* answer of the user that accepts it, except the call for the primary
\* command when auto_execute is true.
C26_ExecutedOnlyOnConsent ==
    \A i \in 2..Len(stack) :
        (stack[i].fn = "execute_command" /\ stack[i].pc = "check")
            => \/ stack[i].consent = "given"
               \/ /\ stack[i].consent = "auto"
                  /\ config.auto_execute
                  /\ stack[i - 1].fn = "interactive_mode" /\ stack[i - 1].pc = "cmd_ret"

\* the dispatcher is in its NewFiles step, at the save question of a file
AtSaveQuestion == At("interactive_mode", "file_save") /\ Len(stack) = 1

\* C27: in the NewFiles step the files are processed in list order, a file
\* is offered for a run and run only if the user did not decline its save,
\* the write succeeded and the filename has a recognized extension, and a
\* declined or failed save skips only that file: from the save question of
\* a file the step moves to the run question of the same file, to the save
\* question of the next file, or ends after the last file.
C27_RunOnlySavedInOrder ==
    /\ [](At("interactive_mode", "file_run")
            => \A file_info \in {Top.parsed[1].new_files[Top.file]} :
                  /\ Top.consent = "given"
                  /\ file_info.filename \in DOMAIN fs
                  /\ IsScript(file_info.filename))
    /\ [][(AtSaveQuestion /\ exc' = "none")
            => IF stack' = <<>>
               THEN stack[1].file = Len(stack[1].parsed[1].new_files)
               ELSE \/ stack'[1].pc = "file_run" /\ stack'[1].file = stack[1].file
                    \/ stack'[1].pc = "file_save" /\ stack'[1].file = stack[1].file + 1]_vars

\* an 'edit' command is being handled: _handle_edit is on the stack
EditInProgress == \E i \in DOMAIN stack : stack[i].fn = "handle_edit"

\* C38: the 'edit <filename> <instruction>' command overwrites a file only
\* when the AI response parses to an edited_file whose filename equals the
\* requested filename exactly and the user does not answer 'n' to the
\* overwrite prompt: while the command is handled, a step that changes the
\* files is the write of _apply_file_edit called by _handle_edit for the
\* requested name, after an answer other than 'n', and it changes no other
\* file.  In every other case the files stay as they are.
C38_EditOverwritesOnlyRequestedFile ==
    [][(EditInProgress /\ fs' # fs)
         => /\ Len(stack) >= 2
            /\ At("apply_file_edit", "write")
            /\ \E h \in {stack[Len(stack) - 1]} :
                 /\ h.fn = "handle_edit"
                 /\ h.filename = SplitMax2(h.user_input)[2]
                 /\ h.parsed[1].edited_file # None
                 /\ h.parsed[1].edited_file[1].filename = h.filename
                 /\ Top.filename = h.filename
                 /\ Lower(Strip(Top.answer[1])) # <<"n">>
                 /\ \A n \in DOMAIN fs : n # h.filename => (n \in DOMAIN fs' /\ fs'[n] = fs[n])]_vars

\* the edit command for a.py has overwritten a.py with the edited code
C38_Witness ==
    /\ request.fn = "handle_edit"
    /\ SplitMax2(request.user_input)[2] = FileName(1)
    /\ fs[FileName(1)] = EditCode
    /\ fs[UpperName] = CodeContent

\* _query_ai has just returned success = False to the function on top
QueryFailed == stack # <<>> /\ exc = "none" /\ Top.pc = "query_failed"

\* C36: when the AI query returns success = False, its response text is
\* never parsed or acted on, at all four call sites (interactive turn, edit
\* command, command debug, code debug): nothing has been parsed, and the
\* next step executes no command, writes no file and issues no query.  The
\* turn and the edit command end there; in the debug loops the failed query
\* has used up one attempt: the loop goes on with the next attempt, and
\* returns failure once the attempts are used up.
C36_FailedQueryNotActedOn ==
    /\ [](QueryFailed => (Top.fn # "debug_command_error" => Top.parsed = None))
    /\ [][QueryFailed
            => /\ UNCHANGED <<fs, spawned, aiQueries>>
               /\ IF Top.fn \in DebugLoops
                  THEN IF Top.attempt < DEBUG_ATTEMPTS
                       THEN stack' = [stack EXCEPT ![Len(stack)] = [Top EXCEPT !.pc = "query", !.attempt = Top.attempt + 1]]
                       ELSE TopReturns /\ ~ret'.success
                  ELSE TopReturns]_vars

\* the last query a code debug loop is allowed has failed, after a first
\* one that failed as well
C36_Witness ==
    /\ At("debug_code_error", "query_failed")
    /\ Len(stack) = 1
    /\ Top.attempt = DEBUG_ATTEMPTS
    /\ aiQueries = DEBUG_ATTEMPTS
    /\ fs = <<>> /\ spawned = <<>>

\* a failed query at the site fn
FailedAt(fn) == At(fn, "query_failed")

\* C37: in single-command mode (main invoked with a positional query), for
\* every AI response the program only prints: no file is created or
\* overwritten, no command or dependency install is executed, no debug
\* loop is entered, and the AI is asked once.
C37_SingleCommandOnlyPrints ==
    /\ [](request.fn = "main"
            => /\ spawned = <<>>
               /\ aiQueries <= 1
               /\ \A i \in DOMAIN stack : stack[i].fn = "main")
    /\ [][request.fn = "main" => fs' = fs]_vars

\* single-command mode has printed a response that carries an install, a
\* files block and a command, with files on disk
C37_Witness ==
    /\ At("main", "printed")
    /\ Truthy(Top.parsed[1].dependencies)
    /\ Len(Top.parsed[1].new_files) = MaxFiles
    /\ Truthy(Top.parsed[1].command)
    /\ Top.shown = [dependencies |-> TRUE, primary |-> "files"]
    /\ fs = EditFs

\* the parsed response carries a file payload and a non-empty command
FilesAndCommand(p) == Truthy(p.command) /\ (p.new_files # <<>> \/ p.edited_file # None)

\* where _debug_code_error is while it handles a suggested command: the
\* question of line 939, the command, the re-run question and the re-run
CommandPath == {"confirm_fix", "fix_ret", "rerun_prompt", "rerun_ret"}

\* the dispatcher chain of the interactive loop takes the file branch
DispatcherTakesFiles ==
    (At("interactive_mode", "primary") /\ FilesAndCommand(Top.parsed[1]))
       => /\ Len(stack') >= Len(stack)
          /\ stack'[Len(stack)].pc \in {"file_save", "edit_ret"}

\* the chain of the code debug loop takes the command branch
DebugLoopTakesCommand ==
    (At("debug_code_error", "dispatch") /\ FilesAndCommand(Top.parsed[1]))
       => /\ Len(stack') = Len(stack)
          /\ Top'.pc = "confirm_fix"

\* once on the command path, the attempt ends (the frame returns, or the
\* next query is made) without the file having been offered
CommandPathOffersNoFile ==
    \A i \in DOMAIN stack :
       (stack[i].fn = "debug_code_error" /\ stack[i].pc \in CommandPath /\ i \in DOMAIN stack')
          => stack'[i].pc \in CommandPath \cup {"query"}

====
